---- MODULE Spec2Model ----
(***************************************************************************)
(* Focus enforcement of the ContextTabs extension: the focus session state *)
(* machine (lib/focusEngine), its persisted FocusState (api/storageApi),   *)
(* the background service worker's handlers (background/index.ts) and the  *)
(* declarative blocking rules (background/blockingRules).                  *)
(*                                                                         *)
(* Times are milliseconds, as Date.now() gives them.  A JavaScript         *)
(* `undefined` number is Undefined, an `undefined` array is UndefinedArr,  *)
(* an `undefined` context string is None.                                  *)
(***************************************************************************)
EXTENDS Integers, FiniteSets, Sequences, TLC

VARIABLES
    focusState,            \* storage key "focusState": {} when absent, else {record}
    legacy,                \* storage keys of the old format
    installReason,         \* the pending chrome.runtime.onInstalled event, if any
    now,                   \* Date.now()
    recentlyBlocked,       \* focusEngine: badge flag
    blockClearTimer,       \* focusEngine: deadline of the pending cool-down timeout
    endTimeCheckInterval,  \* focusEngine: the handle names a live expiry interval
    liveIntervals,         \* how many expiry intervals setInterval has running
    pendingTimeouts,       \* the deadlines of the cool-down timeouts still to fire
    focusStateChanged,     \* a chrome.storage.onChanged event for focusState is pending
    domainContextMap,      \* storage key "domainContextMap"
    installedRules,        \* the dynamic rules held by declarativeNetRequest
    recentlyUnblockedTabs, \* background: tabs that get a pass
    tabUrl,                \* what each tab currently shows
    calls,                 \* the start() and end() calls issued since storage was last quiet
    base,                  \* the focus state when the first of them was issued
    runs,                  \* the runs of applyAllowedContexts followed await by await
    contextSwitches,       \* drift detector: the context switches recorded, oldest first
    contextHistory,        \* storage key "contextHistory", oldest entry first
    tasks,                 \* the other handlers in flight, each suspended at an await
    unblockTimers,         \* background: the pending removals of a tab's pass
    notifications,         \* the session-complete notifications raised so far
    ret                    \* what the latest handler was called with and answered

vars == <<focusState, legacy, installReason, now, recentlyBlocked, blockClearTimer,
          endTimeCheckInterval, liveIntervals, pendingTimeouts, focusStateChanged,
          domainContextMap, installedRules, recentlyUnblockedTabs, tabUrl, calls,
          base, runs, contextSwitches, contextHistory, tasks, unblockTimers,
          notifications, ret>>

\* the timers of focusEngine
timerVars == <<liveIntervals, pendingTimeouts>>

sessionVars == <<focusState, legacy, installReason, recentlyBlocked, blockClearTimer,
                 endTimeCheckInterval, timerVars, focusStateChanged>>

navVars == <<domainContextMap, installedRules, recentlyUnblockedTabs, tabUrl>>

\* the calls of start() and end() that are followed await by await
raceVars == <<calls, base>>

\* what the handlers that are followed await by await keep between their steps
\* the state of the drift detector, the context history, the handlers followed
\* await by await, the timed passes and the notifications
lateVars == <<contextSwitches, contextHistory, tasks, unblockTimers, notifications>>

asyncVars == <<raceVars, runs, lateVars>>

---------------------------------------------------------------------------
(* Bounds of the model *)

\* how many clock steps the model takes
MaxTicks == 3

\* how many browser tabs there are
MaxTabs == 2

\* how many calls of start() and end() overlap
MaxCalls == 2

\* how many runs of applyAllowedContexts overlap
MaxRuns == 2

\* how many labels a domain given to the classifier has at most
MaxLabels == 4

\* how many context switches the drift detector is given
MaxSwitches == 3

\* how many steps the drift clock takes
MaxDriftTicks == 2

\* how many of the handlers followed await by await are called
MaxTasks == 3

---------------------------------------------------------------------------
(* Values *)

Undefined == -1

UndefinedArr == {"undefined"}

None == "undefined"

\* start: durationMin * 60 * 1000
MsPerMinute == 60 * 1000

\* one clock step
TickMs == MsPerMinute \div 2

\* Date.now() when the model starts; it is never 0
StartTime == TickMs

Truthy(x) == x # Undefined /\ x # 0

OrUndefined(x) == IF Truthy(x) THEN x ELSE Undefined

KNOWN_CONTEXTS ==
    {"Work", "Development", "Research", "Learning",
     "Entertainment", "Social", "Shopping", "News"}

\* the order in which getAllKnownContexts lists them
getAllKnownContexts ==
    <<"Work", "Development", "Research", "Learning",
      "Entertainment", "Social", "Shopping", "News">>

\* context strings that are no member of the enumeration
OtherContexts == {"Unknown", "Gaming"}

defaultState == [active |-> FALSE, allowedContexts |-> {}, endTime |-> Undefined]

\* storageApi.getFocusState: the stored object over the default state
getFocusState ==
    IF focusState = {} THEN defaultState ELSE CHOOSE s \in focusState : TRUE

\* the object storageApi.setFocusState writes: the current state with the
\* given fields replaced; storage drops a field whose value is undefined
Field(fields, k) == IF k \in DOMAIN fields THEN fields[k] ELSE getFocusState[k]

Merged(fields) ==
    [active          |-> Field(fields, "active"),
     allowedContexts |-> Field(fields, "allowedContexts"),
     endTime         |-> Field(fields, "endTime")]

\* storageApi.setFocusState: { ...currentState, ...partialState }
spread(currentState, partialState) ==
    [active          |-> IF "active" \in DOMAIN partialState
                            THEN partialState.active ELSE currentState.active,
     allowedContexts |-> IF "allowedContexts" \in DOMAIN partialState
                            THEN partialState.allowedContexts
                            ELSE currentState.allowedContexts,
     endTime         |-> IF "endTime" \in DOMAIN partialState
                            THEN partialState.endTime ELSE currentState.endTime]

\* a URL as new URL(text) sees it: the text parses or the constructor throws;
\* a text that parses has a hostname, a sequence of DNS labels, and a pathname,
\* a sequence of segments between '/', each the sequence of its words between
\* '-' and '_'
Url(hostname, path) == [parses |-> TRUE, hostname |-> hostname, path |-> path]

\* a text new URL() throws on: it has no scheme, and hostname and path are
\* what it names after the place where the scheme is missing
Schemeless(hostname, path) == [parses |-> FALSE, hostname |-> hostname, path |-> path]

\* the handler was given no URL
NoUrl == Url(<<>>, <<>>)

\* val is the answer of a handler that answers a boolean, n the answer of one
\* that answers a number; before is the number of timers of the kind the
\* handler arms that were running when it was called; rulesBefore is the
\* number of rules installed when the handler ran applyAllowedContexts, and
\* Undefined when it did not run it; url is the URL the handler was given, out
\* the sequence it answered, conf the confidence (in percent) it was given
NoRet ==
    [op |-> "none", ctx |-> None, allowed |-> {}, d |-> Undefined, val |-> FALSE,
     pass |-> FALSE, n |-> Undefined, before |-> 0, rulesBefore |-> Undefined,
     url |-> NoUrl, out |-> <<>>, conf |-> Undefined, name |-> None, effects |-> {}]

Ret(op, ctx, allowed, d, val) ==
    [op |-> op, ctx |-> ctx, allowed |-> allowed, d |-> d, val |-> val, pass |-> FALSE,
     n |-> Undefined, before |-> 0, rulesBefore |-> Undefined,
     url |-> NoUrl, out |-> <<>>, conf |-> Undefined, name |-> None, effects |-> {}]

---------------------------------------------------------------------------
(* Inputs *)

\* popup: the check boxes rendered, one per available context
AVAILABLE_CONTEXTS ==
    {"Work", "Development", "Research", "Learning",
     "Entertainment", "Social", "Shopping", "News"}

\* what START_FOCUS_SESSION carries as allowedContexts: the values of the
\* checked boxes of the popup, which sends nothing when none is checked
AllowedChoices == {AVAILABLE_CONTEXTS \cap {"Work", "Development"}, AVAILABLE_CONTEXTS}

\* what a legacy payload or the old storage format carries as blockedCategories
BlockedChoices == {UndefinedArr, {"Entertainment", "Gaming"}, KNOWN_CONTEXTS}

\* the allow-lists of the sessions whose navigation is followed
NavAllowedChoices == AllowedChoices

\* durationMinutes: absent, or a number of minutes
Durations == {Undefined, 0, 1}

\* the contexts isBlocked is asked about
AskedContexts == {"Work", "Entertainment", "Unknown", None}

Times == {StartTime + k * TickMs : k \in 0..MaxTicks}

\* what the old storage format can hold when the extension is updated
LegacyChoices ==
    {[focusSessionActive |-> TRUE, focusSessionEndTime |-> StartTime + 2 * TickMs,
      blockedCategories |-> {"Entertainment", "Gaming"}],
     [focusSessionActive |-> FALSE, focusSessionEndTime |-> StartTime + 2 * TickMs,
      blockedCategories |-> {"Entertainment", "Social"}],
     [focusSessionActive |-> TRUE, focusSessionEndTime |-> Undefined,
      blockedCategories |-> UndefinedArr]}

NoLegacy ==
    [focusSessionActive |-> FALSE, focusSessionEndTime |-> Undefined,
     blockedCategories |-> UndefinedArr]

---------------------------------------------------------------------------
(* lib/focusEngine *)

\* start: const endTime = durationMin ? Date.now() + durationMin * 60 * 1000 : undefined
startEndTime(durationMin) ==
    IF Truthy(durationMin) THEN now + durationMin * MsPerMinute ELSE Undefined

\* the mutant of armInterval: the interval that runs is not cleared
armIntervalNoClear == liveIntervals + 1

\* start: if (endTimeCheckInterval) clearInterval(endTimeCheckInterval), then
\* setInterval: the number of intervals running afterwards
armInterval == (IF endTimeCheckInterval THEN liveIntervals - 1 ELSE liveIntervals) + 1

\* start: the fields it hands to setFocusState
startFields(allowed, durationMin) ==
    [active |-> TRUE, allowedContexts |-> allowed, endTime |-> startEndTime(durationMin)]

\* start, after setFocusState: if (endTime) the interval is armed
startTimers(endTime) ==
    /\ endTimeCheckInterval' = IF Truthy(endTime) THEN TRUE ELSE endTimeCheckInterval
    /\ liveIntervals' = IF Truthy(endTime) THEN armInterval ELSE liveIntervals
    /\ UNCHANGED <<recentlyBlocked, blockClearTimer, pendingTimeouts>>

\* start(allowed, durationMin), run without another handler in between
start(allowed, durationMin) ==
    /\ focusState' = {Merged(startFields(allowed, durationMin))}
    /\ focusStateChanged' = TRUE
    /\ startTimers(startEndTime(durationMin))

\* end: the fields it hands to setFocusState
endFields == [active |-> FALSE, endTime |-> Undefined]

\* the mutant of end: the expiry interval is left running
endKeepsInterval ==
    /\ focusState' = {Merged(endFields)}
    /\ focusStateChanged' = TRUE
    /\ UNCHANGED <<endTimeCheckInterval, liveIntervals>>
    /\ recentlyBlocked' = FALSE
    /\ pendingTimeouts' = pendingTimeouts \ {blockClearTimer}
    /\ blockClearTimer' = Undefined

\* end, after setFocusState: the interval and the block indicator are cleared
endTimers ==
    /\ liveIntervals' = IF endTimeCheckInterval THEN liveIntervals - 1 ELSE liveIntervals
    /\ endTimeCheckInterval' = FALSE
    /\ recentlyBlocked' = FALSE
    /\ pendingTimeouts' = pendingTimeouts \ {blockClearTimer}
    /\ blockClearTimer' = Undefined

\* end(), run without another handler in between
end ==
    /\ focusState' = {Merged(endFields)}
    /\ focusStateChanged' = TRUE
    /\ endTimers

\* every call issued has run to its last statement or has rejected
Quiet == \A i \in 1..Len(calls) : calls[i].phase \in {"done", "rejected"}

\* a call of start() or end() runs up to the storage read of setFocusState
Issue(op, fields) ==
    LET call == [op |-> op, fields |-> fields, phase |-> "read", current |-> defaultState]
    IN  /\ IF Quiet
              THEN calls' = <<call>> /\ base' = getFocusState
              ELSE /\ Len(calls) < MaxCalls
                   /\ calls' = Append(calls, call)
                   /\ UNCHANGED base
        /\ ret' = NoRet
        /\ UNCHANGED <<sessionVars, now, navVars, runs, lateVars>>

CallStart(allowed, durationMin) == Issue("start", startFields(allowed, durationMin))

CallEnd == Issue("end", endFields)

\* setFocusState: const currentState = await getFocusState()
ReadState(i) ==
    /\ calls[i].phase = "read"
    /\ calls' = [calls EXCEPT ![i].phase = "write", ![i].current = getFocusState]
    /\ ret' = NoRet
    /\ UNCHANGED <<sessionVars, now, navVars, base, runs, lateVars>>

\* setFocusState: await setStorage({focusState: {...currentState, ...partialState}})
WriteState(i) ==
    /\ calls[i].phase = "write"
    /\ focusState' = {spread(calls[i].current, calls[i].fields)}
    /\ focusStateChanged' = TRUE
    /\ calls' = [calls EXCEPT ![i].phase = "resume"]
    /\ ret' = NoRet
    /\ UNCHANGED <<legacy, installReason, recentlyBlocked, blockClearTimer,
                   endTimeCheckInterval, timerVars, now, navVars, base, runs, lateVars>>

\* the mutant of abandon: the call goes on to its timers although
\* setFocusState has rejected
abandonAfterTimers(i) ==
    /\ IF calls[i].op = "start" THEN startTimers(calls[i].fields.endTime) ELSE endTimers
    /\ UNCHANGED <<focusState, legacy, installReason, focusStateChanged>>

\* start() or end() when await setFocusState(...) rejects: the statements
\* after the await do not run
abandon(i) == UNCHANGED sessionVars

\* getStorage rejects with chrome.runtime.lastError: getFocusState,
\* setFocusState and the call of start() or end() reject with it
ReadFails(i) ==
    /\ calls[i].phase = "read"
    /\ calls' = [calls EXCEPT ![i].phase = "rejected"]
    /\ abandon(i)
    /\ ret' = Ret("readFailed", None, {}, Undefined, FALSE)
    /\ UNCHANGED <<now, navVars, base, runs, lateVars>>

\* setStorage rejects with chrome.runtime.lastError and nothing is stored:
\* setFocusState and the call of start() or end() reject with it
WriteFails(i) ==
    /\ calls[i].phase = "write"
    /\ calls' = [calls EXCEPT ![i].phase = "rejected"]
    /\ abandon(i)
    /\ ret' = Ret("writeFailed", None, {}, Undefined, FALSE)
    /\ UNCHANGED <<now, navVars, base, runs, lateVars>>

\* start() or end() goes on after setFocusState, to its last statement
Resume(i) ==
    /\ calls[i].phase = "resume"
    /\ calls' = [calls EXCEPT ![i].phase = "done"]
    /\ IF calls[i].op = "start"
          THEN /\ startTimers(calls[i].fields.endTime)
               /\ ret' = [Ret("start", None, calls[i].fields.allowedContexts,
                              Undefined, TRUE) EXCEPT !.before = liveIntervals]
          ELSE /\ endTimers
               /\ ret' = Ret("end", None, {}, Undefined, TRUE)
    /\ UNCHANGED <<focusState, legacy, installReason, focusStateChanged, now, navVars,
                   base, runs, lateVars>>

\* the cool-down of the recently-blocked flag
BLOCK_CLEAR_MS == 30000

\* the mutant of isBlocked: the check of focusState.active is missing
isBlockedNoActiveCheck(context) ==
    context \notin getFocusState.allowedContexts

\* the mutant of isBlocked: a recent block sticks
isBlockedSticky(context) ==
    /\ getFocusState.active
    /\ (recentlyBlocked \/ context \notin getFocusState.allowedContexts)

\* the mutant of isBlocked: an empty allow-list blocks nothing
isBlockedEmptyAllowsAll(context) ==
    /\ getFocusState.active
    /\ getFocusState.allowedContexts # {}
    /\ context \notin getFocusState.allowedContexts

\* isBlocked(context): the value it returns
isBlocked(context) ==
    IF ~getFocusState.active THEN FALSE
    ELSE IF context \in getFocusState.allowedContexts THEN FALSE
    ELSE TRUE

\* the mutant of restartCoolDown: the pending timeout is not cleared
stackCoolDown == pendingTimeouts \cup {now + BLOCK_CLEAR_MS}

\* isBlocked: if (blockClearTimer) clearTimeout(blockClearTimer), then
\* setTimeout(..., 30000): the timeouts pending afterwards
restartCoolDown == (pendingTimeouts \ {blockClearTimer}) \cup {now + BLOCK_CLEAR_MS}

\* isBlocked(context): the call, with what it does to the badge state
IsBlockedCall(context) ==
    /\ UNCHANGED asyncVars
    /\ IF isBlocked(context)
          THEN /\ recentlyBlocked' = TRUE
               /\ pendingTimeouts' = restartCoolDown
               /\ blockClearTimer' = now + BLOCK_CLEAR_MS
          ELSE UNCHANGED <<recentlyBlocked, blockClearTimer, pendingTimeouts>>
    /\ ret' = [Ret("isBlocked", context, {}, Undefined, isBlocked(context))
                  EXCEPT !.before = Cardinality(pendingTimeouts)]
    /\ UNCHANGED <<focusState, legacy, installReason, now, endTimeCheckInterval,
                   liveIntervals, focusStateChanged, navVars>>

\* the callback of a cool-down timeout whose deadline has come; a handle of
\* Undefined stands for one that names no pending timeout
BlockClearTimeout ==
    /\ UNCHANGED asyncVars
    /\ \E deadline \in pendingTimeouts :
          /\ now >= deadline
          /\ pendingTimeouts' = pendingTimeouts \ {deadline}
          /\ blockClearTimer' = IF blockClearTimer = deadline THEN Undefined
                                ELSE blockClearTimer
    /\ recentlyBlocked' = FALSE
    /\ ret' = Ret("coolDown", None, {}, Undefined, recentlyBlocked)
    /\ UNCHANGED <<focusState, legacy, installReason, now, endTimeCheckInterval,
                   liveIntervals, focusStateChanged, navVars>>

\* the callback of an expiry interval
ExpiryInterval ==
    /\ UNCHANGED asyncVars
    /\ liveIntervals > 0
    /\ IF getFocusState.active /\ Truthy(getFocusState.endTime)
          /\ getFocusState.endTime <= now
          THEN end /\ ret' = Ret("expiry", None, {}, Undefined, TRUE)
          ELSE /\ ret' = Ret("expiry", None, {}, Undefined, FALSE)
               /\ UNCHANGED sessionVars
    /\ UNCHANGED <<legacy, installReason, now, navVars>>

Max(a, b) == IF a >= b THEN a ELSE b

\* getTimeLeft(): Math.floor(Math.max(0, endTime - Date.now()) / 60000)
getTimeLeft ==
    IF ~getFocusState.active \/ ~Truthy(getFocusState.endTime) THEN 0
    ELSE Max(0, getFocusState.endTime - now) \div MsPerMinute

---------------------------------------------------------------------------
(* lib/contextEngine/urlAnalyzer: domains are sequences of DNS labels *)

Domains == {<<"youtube", "com">>, <<"github", "com">>, <<"example", "org">>}

\* the domains the domain map has a place for: those above and one the table
\* lists with three labels
MapDomains == Domains \cup {<<"docs", "google", "com">>}

\* DOMAIN_CATEGORIES, the entries for the domains of the model
DOMAIN_CATEGORIES ==
    [d \in MapDomains |->
        IF d = <<"youtube", "com">> THEN "Entertainment"
        ELSE IF d = <<"github", "com">> THEN "Development"
        ELSE IF d = <<"docs", "google", "com">> THEN "Work"
        ELSE None]

\* the mutant of extractDomain: the host is taken from a text that does not
\* parse as well
extractDomainLenient(url) == url.hostname

\* extractDomain(url): the hostname, and "" when new URL(url) throws
extractDomain(url) == IF url.parses THEN url.hostname ELSE <<>>

\* the concatenation of the sequences of seqs
RECURSIVE flat(_)
flat(seqs) == IF seqs = <<>> THEN <<>> ELSE Head(seqs) \o flat(Tail(seqs))

\* segment.split(/[-_]/).filter(word => word.length > 2)
segmentKeywords(segment) == SelectSeq(segment, LAMBDA word : Len(word) > 2)

\* extractPathKeywords(url): the words of more than two characters of the
\* segments of the pathname, and [] when new URL(url) throws
extractPathKeywords(url) ==
    IF url.parses
       THEN flat([k \in 1..Len(url.path) |-> segmentKeywords(url.path[k])])
       ELSE <<>>

\* map[domain] of a stored domain map, undefined for a key it does not hold
mapEntry(map, domain) == IF domain \in DOMAIN map THEN map[domain] ELSE None

\* DOMAIN_CATEGORIES[domain], undefined for a domain the table does not list
tableEntry(domain) ==
    IF domain \in DOMAIN DOMAIN_CATEGORIES THEN DOMAIN_CATEGORIES[domain] ELSE None

\* the mutant of getDomainCategory: "www." is not taken off
getDomainCategoryKeepsWww(domain) ==
    IF tableEntry(domain) # None THEN tableEntry(domain)
    ELSE IF Len(domain) > 2
         THEN tableEntry(SubSeq(domain, Len(domain) - 1, Len(domain)))
    ELSE None

\* getDomainCategory(domain): exact entry, entry without "www.", entry of the
\* last two labels
getDomainCategory(domain) ==
    IF tableEntry(domain) # None THEN tableEntry(domain)
    ELSE IF Len(domain) >= 2 /\ domain[1] = "www" /\ tableEntry(Tail(domain)) # None
         THEN tableEntry(Tail(domain))
    ELSE IF Len(domain) > 2
         THEN tableEntry(SubSeq(domain, Len(domain) - 1, Len(domain)))
    ELSE None

Tabs == 1..MaxTabs

\* the extension's blocked.html, and the page a new tab shows
BlockedPage == <<"blocked.html">>

NewTab == <<"newtab">>

---------------------------------------------------------------------------
(* background/blockingRules *)

RULE_ID_OFFSET == 100

MAX_DNR_RULES == 5000

\* the domains the map records for a context
domainsByContext(map, context) == {d \in DOMAIN map : map[d] = context}

\* the mutant of BuildRules: a blocked context without a domain gets a rule too
RECURSIVE BuildRulesForEmpty(_, _, _, _, _)
BuildRulesForEmpty(fs, map, i, ruleId, rules) ==
    IF i > Len(getAllKnownContexts) THEN rules
    ELSE LET context == getAllKnownContexts[i] IN
         IF context \in fs.allowedContexts
            THEN BuildRulesForEmpty(fs, map, i + 1, ruleId, rules)
            ELSE LET added == rules \cup {[id |-> ruleId, domains |-> domainsByContext(map, context)]}
                 IN  IF Cardinality(added) >= MAX_DNR_RULES THEN added
                     ELSE BuildRulesForEmpty(fs, map, i + 1, ruleId + 1, added)

\* the loop over blockedContexts, from the i-th known context on
RECURSIVE BuildRules(_, _, _, _, _)
BuildRules(fs, map, i, ruleId, rules) ==
    IF i > Len(getAllKnownContexts) THEN rules
    ELSE LET context == getAllKnownContexts[i] IN
         IF context \in fs.allowedContexts \/ domainsByContext(map, context) = {}
            THEN BuildRules(fs, map, i + 1, ruleId, rules)
            ELSE LET added == rules \cup {[id |-> ruleId, domains |-> domainsByContext(map, context)]}
                 IN  IF Cardinality(added) >= MAX_DNR_RULES THEN added
                     ELSE BuildRules(fs, map, i + 1, ruleId + 1, added)

\* the loop meets if (rules.length >= MAX_DNR_RULES): it warns that the limit
\* is reached and breaks
reportsTruncation(fs, map) ==
    Cardinality(BuildRules(fs, map, 1, RULE_ID_OFFSET, {})) >= MAX_DNR_RULES

\* getCurrentRuleIds
getCurrentRuleIds == {r.id : r \in installedRules}

\* updateDynamicRules is refused: a rule to add has the id of a rule that is
\* installed and is not in removeRuleIds
duplicateId(removeRuleIds, addRules) ==
    \E r \in addRules, k \in installedRules : k.id \notin removeRuleIds /\ k.id = r.id

\* chrome.declarativeNetRequest.updateDynamicRules({removeRuleIds, addRules}):
\* the rules are removed and added in one step, or the call is refused and
\* the rules stay as they are
updateDynamicRules(removeRuleIds, addRules) ==
    IF duplicateId(removeRuleIds, addRules) THEN installedRules
    ELSE {r \in installedRules : r.id \notin removeRuleIds} \cup addRules

\* the mutant of applyAllowedContexts: an inactive session leaves the rules alone
applyAllowedContextsKeepsRules(fs, map) ==
    IF ~fs.active
       THEN installedRules
       ELSE updateDynamicRules(getCurrentRuleIds,
                               BuildRules(fs, map, 1, RULE_ID_OFFSET, {}))

\* applyAllowedContexts(), reading the focus state fs and the domain map: the
\* rules installed after it
applyAllowedContexts(fs, map) ==
    IF ~fs.active
       THEN updateDynamicRules(getCurrentRuleIds, {})
       ELSE updateDynamicRules(getCurrentRuleIds,
                               BuildRules(fs, map, 1, RULE_ID_OFFSET, {}))

\* the labels of pattern stand, in this order and side by side, in domain: the
\* text of pattern is part of the text of domain
Contains(domain, pattern) ==
    \E k \in 0..(Len(domain) - Len(pattern)) :
        SubSeq(domain, k + 1, k + Len(pattern)) = pattern

\* condition.urlFilter: domains.join('|'), met by a main-frame request for a
\* page of domain.  declarativeNetRequest reads '|' as an anchor at either end
\* of urlFilter only; between two domains it is a character of the pattern,
\* which the URL of a page of domain has to contain as it stands.
RuleMatches(rule, domain) ==
    /\ Cardinality(rule.domains) = 1
    /\ \E pattern \in rule.domains : Contains(domain, pattern)

---------------------------------------------------------------------------
(* background/index.ts: messages, alarms, start-up *)

\* the legacy conversion of blockedCategories, mutated: the array is not inverted
legacyAllowedNotInverted(blockedCategories) ==
    IF blockedCategories = UndefinedArr THEN KNOWN_CONTEXTS ELSE blockedCategories

\* KNOWN_CONTEXTS.filter(ctx => !blockedCategories?.includes(ctx))
legacyAllowed(blockedCategories) ==
    IF blockedCategories = UndefinedArr THEN KNOWN_CONTEXTS
    ELSE KNOWN_CONTEXTS \ blockedCategories

\* START_FOCUS_SESSION carrying allowedContexts
StartFocusSession(allowedContexts, durationMinutes) ==
    /\ UNCHANGED asyncVars
    /\ start(allowedContexts, durationMinutes)
    /\ ret' = [Ret("start", None, allowedContexts, durationMinutes, TRUE)
                  EXCEPT !.before = liveIntervals]
    /\ UNCHANGED <<legacy, installReason, now, navVars>>

\* START_FOCUS_SESSION without allowedContexts: the legacy blockedCategories
StartFocusSessionLegacy(blockedCategories, durationMinutes) ==
    /\ UNCHANGED asyncVars
    /\ start(legacyAllowed(blockedCategories), durationMinutes)
    /\ ret' = [Ret("start", None, legacyAllowed(blockedCategories), durationMinutes, TRUE)
                  EXCEPT !.before = liveIntervals]
    /\ UNCHANGED <<legacy, installReason, now, navVars>>

\* END_FOCUS_SESSION
\* the workspace names an END_FOCUS_SESSION message carries: none (the popup's
\* message has no payload) or a name
WorkspaceNames == {None, "deep-work"}

\* the collaborator calls end() makes: it has no parameter, so the name the
\* handler passes is dropped, and its body only clears the badge
endEffects(saveWorkspaceName) == {"setBadgeText"}

\* onMessage END_FOCUS_SESSION: focusEngine.end(saveWorkspaceName)
EndFocusSession ==
    /\ UNCHANGED asyncVars
    /\ end
    /\ \E saveWorkspaceName \in WorkspaceNames :
          ret' = [Ret("end", None, {}, Undefined, TRUE) EXCEPT
                    !.name = saveWorkspaceName,
                    !.effects = endEffects(saveWorkspaceName)]
    /\ UNCHANGED <<legacy, installReason, now, navVars>>

\* GET_FOCUS_TIME_LEFT: answers {seconds: getTimeLeft()}; d is the duration of
\* the start that completed just before the call, if one did
GetFocusTimeLeft ==
    /\ UNCHANGED asyncVars
    /\ ret' = [Ret("timeLeft", None, {}, IF ret.op = "start" THEN ret.d ELSE Undefined, TRUE)
                  EXCEPT !.n = getTimeLeft]
    /\ UNCHANGED <<sessionVars, now, navVars>>

\* the allow-list FOCUS_TOGGLE starts with
TOGGLE_CONTEXTS == {"Work", "Development", "Research", "Learning"}

\* FOCUS_TOGGLE: toggleFocusMode(enabled)
toggleFocusMode(enabled) ==
    /\ UNCHANGED asyncVars
    /\ IF enabled
          THEN /\ start(TOGGLE_CONTEXTS, Undefined)
               /\ ret' = [Ret("start", None, TOGGLE_CONTEXTS, Undefined, TRUE)
                             EXCEPT !.before = liveIntervals,
                                    !.rulesBefore = Cardinality(installedRules)]
          ELSE /\ end
               /\ ret' = [Ret("end", None, {}, Undefined, TRUE)
                             EXCEPT !.rulesBefore = Cardinality(installedRules)]
    /\ installedRules' = applyAllowedContexts(getFocusState', domainContextMap)
    /\ UNCHANGED <<legacy, installReason, now, domainContextMap,
                   recentlyUnblockedTabs, tabUrl>>

\* the mutant of checkFocusSessionStatus: the session ends only after endTime,
\* not at it
checkFocusSessionStatusLate ==
    /\ UNCHANGED asyncVars
    /\ IF Truthy(getFocusState.endTime) /\ now > getFocusState.endTime
          /\ getFocusState.active
          THEN end /\ ret' = Ret("alarm", None, {}, Undefined, TRUE)
          ELSE /\ ret' = Ret("alarm", None, {}, Undefined, FALSE)
               /\ UNCHANGED sessionVars
    /\ UNCHANGED <<legacy, installReason, now, navVars>>

\* the focusTick alarm: checkFocusSessionStatus()
checkFocusSessionStatus ==
    /\ UNCHANGED asyncVars
    /\ IF Truthy(getFocusState.endTime) /\ now >= getFocusState.endTime
          /\ getFocusState.active
          THEN end /\ ret' = Ret("alarm", None, {}, Undefined, TRUE)
          ELSE /\ ret' = Ret("alarm", None, {}, Undefined, FALSE)
               /\ UNCHANGED sessionVars
    /\ UNCHANGED <<legacy, installReason, now, navVars>>

\* chrome.storage.onChanged with changes.focusState
OnStorageChanged ==
    /\ UNCHANGED asyncVars
    /\ focusStateChanged
    /\ focusStateChanged' = FALSE
    /\ installedRules' = applyAllowedContexts(getFocusState, domainContextMap)
    /\ ret' = [Ret("storageChanged", None, {}, Undefined, TRUE)
                  EXCEPT !.rulesBefore = Cardinality(installedRules)]
    /\ UNCHANGED <<focusState, legacy, installReason, now, recentlyBlocked,
                   blockClearTimer, endTimeCheckInterval, timerVars, domainContextMap,
                   recentlyUnblockedTabs, tabUrl>>

\* initExtension: if (!focusState.endTime || focusState.endTime <= Date.now())
initExpired(fs) == ~Truthy(fs.endTime) \/ fs.endTime <= now

\* the service worker starts again: its memory is fresh and initExtension runs
initExtension ==
    /\ UNCHANGED asyncVars
    /\ recentlyBlocked' = FALSE
    /\ blockClearTimer' = Undefined
    /\ endTimeCheckInterval' = FALSE
    /\ liveIntervals' = 0
    /\ pendingTimeouts' = {}
    /\ recentlyUnblockedTabs' = {}
    /\ domainContextMap' = DOMAIN_CATEGORIES
    /\ IF getFocusState.active /\ initExpired(getFocusState)
          THEN /\ focusState' = {Merged([active |-> FALSE, endTime |-> Undefined])}
               /\ focusStateChanged' = TRUE
               /\ UNCHANGED installedRules
               /\ ret' = Ret("init", None, {}, Undefined, TRUE)
          ELSE /\ installedRules' = applyAllowedContexts(getFocusState, DOMAIN_CATEGORIES)
               /\ UNCHANGED <<focusState, focusStateChanged>>
               /\ ret' = [Ret("init", None, {}, Undefined, TRUE)
                             EXCEPT !.rulesBefore = Cardinality(installedRules)]
    /\ UNCHANGED <<legacy, installReason, now, tabUrl>>

\* chrome.runtime.onInstalled: first install, or update with the migration
onInstalled ==
    /\ UNCHANGED asyncVars
    /\ installReason # "none"
    /\ installReason' = "none"
    /\ IF installReason = "install"
          THEN /\ focusState' = {[active |-> FALSE, allowedContexts |-> {},
                                  endTime |-> Undefined]}
               /\ focusStateChanged' = TRUE
               /\ UNCHANGED legacy
          ELSE IF focusState = {}
                  /\ (legacy.focusSessionActive \/ legacy.blockedCategories # UndefinedArr)
          THEN /\ focusState' =
                     {[active |-> legacy.focusSessionActive = TRUE,
                       allowedContexts |->
                          KNOWN_CONTEXTS \ (IF legacy.blockedCategories = UndefinedArr
                                               THEN {} ELSE legacy.blockedCategories),
                       endTime |-> OrUndefined(legacy.focusSessionEndTime)]}
               /\ focusStateChanged' = TRUE
               /\ legacy' = NoLegacy
          ELSE UNCHANGED <<focusState, focusStateChanged, legacy>>
    /\ ret' = Ret("installed", None, {}, Undefined, TRUE)
    /\ UNCHANGED <<now, recentlyBlocked, blockClearTimer, endTimeCheckInterval,
                   timerVars, navVars>>

\* the mutant of listenerBlocks: the test of the allow-list is inverted
listenerBlocksInverted(fs, context) == context # None /\ context \in fs.allowedContexts

\* onBeforeNavigate: if (context && !focusState.allowedContexts.includes(context))
listenerBlocks(fs, context) == context # None /\ context \notin fs.allowedContexts

\* onBeforeNavigate: if (recentlyUnblockedTabs.has(tabId)) return
tabHasPass(tabId) == tabId \in recentlyUnblockedTabs

\* a top-level navigation of tab tabId to url: the onBeforeNavigate listener,
\* and the installed rules the request meets
onBeforeNavigate(tabId, url) ==
    LET fs       == getFocusState
        domain   == extractDomain(url)
        context  == mapEntry(domainContextMap, domain)
        fromPage == tabUrl[tabId] = BlockedPage
        byListener ==
            /\ ~tabHasPass(tabId)
            /\ fs.active
            /\ ~fromPage
            /\ listenerBlocks(fs, context)
        byRule == \E r \in installedRules : RuleMatches(r, domain)
    IN  /\ recentlyUnblockedTabs' =
              IF ~tabHasPass(tabId) /\ fs.active /\ fromPage
                 THEN recentlyUnblockedTabs \cup {tabId}
                 ELSE recentlyUnblockedTabs
        /\ tabUrl' = [tabUrl EXCEPT ![tabId] =
                         IF byListener \/ byRule THEN BlockedPage ELSE domain]
        /\ ret' = [Ret("navigate", context, {}, Undefined, byListener \/ byRule)
                      EXCEPT !.pass = tabHasPass(tabId) \/ fromPage, !.url = url]
        /\ UNCHANGED <<sessionVars, now, domainContextMap, installedRules, asyncVars>>

\* a navigation to the front page of domain
Navigate(tabId, domain) == onBeforeNavigate(tabId, Url(domain, <<>>))

\* OVERRIDE_BLOCK, sent by the intercept page shown in tab tabId
OverrideBlock(tabId) ==
    /\ UNCHANGED asyncVars
    /\ tabUrl[tabId] = BlockedPage
    /\ recentlyUnblockedTabs' = recentlyUnblockedTabs \cup {tabId}
    /\ ret' = NoRet
    /\ UNCHANGED <<sessionVars, now, domainContextMap, installedRules, tabUrl>>

\* the timeout that takes a tab out of recentlyUnblockedTabs
UnblockTimeout(tabId) ==
    /\ UNCHANGED asyncVars
    /\ tabId \in recentlyUnblockedTabs
    /\ recentlyUnblockedTabs' = recentlyUnblockedTabs \ {tabId}
    /\ ret' = NoRet
    /\ UNCHANGED <<sessionVars, now, domainContextMap, installedRules, tabUrl>>

\* the contexts the content script reports
DetectedContexts == {"Entertainment"}

\* the confidence the content script reports with a context, in percent
Confidences == {0, 100}

\* CONTEXT_DETECTED from the page of tab tabId, with the classifier's
\* confidence in contextData: handleContextUpdate
handleContextUpdate(tabId, context, confidence) ==
    LET domain == tabUrl[tabId] IN
    /\ domain \in Domains
    /\ domainContextMap[domain] # context
    /\ domainContextMap' = [domainContextMap EXCEPT ![domain] = context]
    /\ installedRules' = applyAllowedContexts(getFocusState, domainContextMap')
    /\ IF isBlocked(context)
          THEN /\ recentlyBlocked' = TRUE
               /\ pendingTimeouts' = restartCoolDown
               /\ blockClearTimer' = now + BLOCK_CLEAR_MS
               /\ tabUrl' = [tabUrl EXCEPT ![tabId] = BlockedPage]
          ELSE UNCHANGED <<recentlyBlocked, blockClearTimer, pendingTimeouts, tabUrl>>
    /\ ret' = [Ret("contextUpdate", context, {}, Undefined, isBlocked(context))
                  EXCEPT !.rulesBefore = Cardinality(installedRules),
                         !.conf = confidence]
    /\ UNCHANGED <<focusState, legacy, installReason, now, endTimeCheckInterval,
                   liveIntervals, focusStateChanged, recentlyUnblockedTabs, asyncVars>>

\* the categories the user picks on the intercept page
OverrideContexts == {"Work"}

\* blocked.ts, "save and continue" on the intercept page tab tabId shows for a
\* page of domain: the chosen context has to be allowed (FOCUS_STATUS);
\* saveContextOverride writes the map and CONTEXT_OVERRIDE is acknowledged;
\* OVERRIDE_BLOCK gives the tab its pass
saveContextOverride(tabId, domain, context) ==
    /\ tabUrl[tabId] = BlockedPage
    /\ context \in getFocusState.allowedContexts
    /\ domainContextMap' = [domainContextMap EXCEPT ![domain] = context]
    /\ recentlyUnblockedTabs' = recentlyUnblockedTabs \cup {tabId}
    /\ ret' = [Ret("override", context, {}, Undefined, TRUE)
                  EXCEPT !.url = Url(domain, <<>>)]
    /\ UNCHANGED <<sessionVars, now, installedRules, tabUrl, asyncVars>>

\* time passes
Tick ==
    /\ UNCHANGED asyncVars
    /\ now < StartTime + MaxTicks * TickMs
    /\ now' = now + TickMs
    /\ ret' = NoRet
    /\ UNCHANGED <<sessionVars, navVars>>

---------------------------------------------------------------------------
(* Specifications *)

\* the extension has just been installed or updated: the worker has loaded
\* (the domain map is seeded) and the onInstalled event is still to come
\* nothing recorded, nothing in flight
InitLate ==
    /\ contextSwitches = <<>>
    /\ contextHistory = <<>>
    /\ tasks = <<>>
    /\ unblockTimers = {}
    /\ notifications = <<>>

Init ==
    /\ focusState = {}
    /\ installReason \in {"install", "update"}
    /\ legacy \in (IF installReason = "update" THEN LegacyChoices ELSE {NoLegacy})
    /\ now = StartTime
    /\ recentlyBlocked = FALSE
    /\ blockClearTimer = Undefined
    /\ endTimeCheckInterval = FALSE
    /\ liveIntervals = 0
    /\ pendingTimeouts = {}
    /\ focusStateChanged = FALSE
    /\ domainContextMap = DOMAIN_CATEGORIES
    /\ installedRules = {}
    /\ recentlyUnblockedTabs = {}
    /\ tabUrl = [t \in Tabs |-> NewTab]
    /\ calls = <<>>
    /\ base = defaultState
    /\ runs = <<>>
    /\ InitLate
    /\ ret = NoRet

\* the focus session state machine, its timers and the service worker's life
Next ==
    \/ \E a \in AllowedChoices, d \in Durations : StartFocusSession(a, d)
    \/ \E b \in BlockedChoices, d \in Durations : StartFocusSessionLegacy(b, d)
    \/ EndFocusSession
    \/ GetFocusTimeLeft
    \/ \E enabled \in BOOLEAN : toggleFocusMode(enabled)
    \/ \E c \in AskedContexts : IsBlockedCall(c)
    \/ BlockClearTimeout
    \/ ExpiryInterval
    \/ checkFocusSessionStatus
    \/ OnStorageChanged
    \/ initExtension
    \/ onInstalled
    \/ Tick

Spec == Init /\ [][Next]_vars

\* setupPeriodicChecks: the focusTick alarm is periodic and chrome keeps it
\* across restarts of the worker, so checkFocusSessionStatus keeps running
SpecAlarm == Spec /\ WF_vars(checkFocusSessionStatus)

\* the extension is installed and onInstalled has run
InitRace ==
    /\ focusState = {defaultState}
    /\ installReason = "none"
    /\ legacy = NoLegacy
    /\ now = StartTime
    /\ recentlyBlocked = FALSE
    /\ blockClearTimer = Undefined
    /\ endTimeCheckInterval = FALSE
    /\ liveIntervals = 0
    /\ pendingTimeouts = {}
    /\ focusStateChanged = FALSE
    /\ domainContextMap = DOMAIN_CATEGORIES
    /\ installedRules = {}
    /\ recentlyUnblockedTabs = {}
    /\ tabUrl = [t \in Tabs |-> NewTab]
    /\ calls = <<>>
    /\ base = defaultState
    /\ runs = <<>>
    /\ InitLate
    /\ ret = NoRet

\* calls of start() and end() that overlap: each is suspended at the two awaits
\* of setFocusState
NextRace ==
    \/ \E a \in AllowedChoices, d \in Durations : CallStart(a, d)
    \/ CallEnd
    \/ \E i \in 1..Len(calls) : ReadState(i)
    \/ \E i \in 1..Len(calls) : WriteState(i)
    \/ \E i \in 1..Len(calls) : Resume(i)

SpecRace == InitRace /\ [][NextRace]_vars

\* the same calls when the storage reads and writes of setFocusState can fail
NextFail ==
    \/ NextRace
    \/ \E i \in 1..Len(calls) : ReadFails(i)
    \/ \E i \in 1..Len(calls) : WriteFails(i)

SpecFail == InitRace /\ [][NextFail]_vars

\* navigation during sessions without a timer: the listener, the rules, the passes
NextNav ==
    \/ \E a \in NavAllowedChoices : StartFocusSession(a, Undefined)
    \/ EndFocusSession
    \/ OnStorageChanged
    \/ initExtension
    \/ onInstalled
    \/ \E t \in Tabs, d \in Domains : Navigate(t, d)
    \/ \E t \in Tabs : OverrideBlock(t)
    \/ \E t \in Tabs : UnblockTimeout(t)
    \/ \E t \in Tabs, c \in DetectedContexts, p \in Confidences :
          handleContextUpdate(t, c, p)

\* a freshly installed extension
InitNav == Init /\ installReason = "install"

SpecNav == InitNav /\ [][NextNav]_vars

\* the labels the domains given to the classifier are made of
Labels == {"www", "docs", "google", "youtube", "com"}

\* the domains given to getDomainCategory
DomainInputs == UNION {[1..n -> Labels] : n \in 0..MaxLabels}

\* the pathnames of the URLs given to the classifier: /watch and
\* /a-video_id//my-playlist
Paths == {<<<<"watch">>>>, <<<<"a", "video", "id">>, <<"">>, <<"my", "playlist">>>>}

\* the URLs given to the classifier and navigated to
UrlInputs ==
    {Url(h, p) : h \in {<<"youtube", "com">>, <<"example", "org">>}, p \in Paths}
    \cup {Schemeless(<<"youtube", "com">>, p) : p \in Paths}

\* getDomainCategory(domain) is called
CallGetDomainCategory(domain) ==
    /\ ret' = [Ret("getDomainCategory", getDomainCategory(domain), {}, Undefined, TRUE)
                  EXCEPT !.url = Url(domain, <<>>)]
    /\ UNCHANGED <<sessionVars, now, navVars, asyncVars>>

\* extractDomain(url) is called
CallExtractDomain(url) ==
    /\ ret' = [Ret("extractDomain", None, {}, Undefined, TRUE)
                  EXCEPT !.url = url, !.out = extractDomain(url)]
    /\ UNCHANGED <<sessionVars, now, navVars, asyncVars>>

\* extractPathKeywords(url) is called
CallExtractPathKeywords(url) ==
    /\ ret' = [Ret("extractPathKeywords", None, {}, Undefined, TRUE)
                  EXCEPT !.url = url, !.out = extractPathKeywords(url)]
    /\ UNCHANGED <<sessionVars, now, navVars, asyncVars>>

\* analyzeUrl(url): the category its scores are based on
analyzeUrl(url) ==
    /\ ret' = [Ret("analyzeUrl", getDomainCategory(extractDomain(url)), {}, Undefined, TRUE)
                  EXCEPT !.url = url, !.out = extractPathKeywords(url)]
    /\ UNCHANGED <<sessionVars, now, navVars, asyncVars>>

\* the classifier is given domains
NextClassify == \E d \in DomainInputs : CallGetDomainCategory(d)

SpecClassify == InitRace /\ [][NextClassify]_vars

\* the classifier is given URLs, and URLs are navigated to during sessions
\* without a timer
NextUrl ==
    \/ \E u \in UrlInputs : CallExtractDomain(u)
    \/ \E u \in UrlInputs : CallExtractPathKeywords(u)
    \/ \E u \in UrlInputs : analyzeUrl(u)
    \/ \E a \in NavAllowedChoices : StartFocusSession(a, Undefined)
    \/ EndFocusSession
    \/ OnStorageChanged
    \/ \E t \in Tabs, u \in UrlInputs : onBeforeNavigate(t, u)

SpecUrl == InitRace /\ [][NextUrl]_vars

\* one domain more than MAX_DNR_RULES
BulkDomains == {<<ToString(n), "com">> : n \in 1..(MAX_DNR_RULES + 1)}

\* the categories all of these domains are learned with
BulkContexts == {"Entertainment", "Social", "Work"}

\* the extension is installed and the domain map has grown to BulkDomains,
\* all of one category
InitCapacity ==
    /\ focusState = {defaultState}
    /\ installReason = "none"
    /\ legacy = NoLegacy
    /\ now = StartTime
    /\ recentlyBlocked = FALSE
    /\ blockClearTimer = Undefined
    /\ endTimeCheckInterval = FALSE
    /\ liveIntervals = 0
    /\ pendingTimeouts = {}
    /\ focusStateChanged = FALSE
    /\ domainContextMap \in {[d \in BulkDomains |-> c] : c \in BulkContexts}
    /\ installedRules = {}
    /\ recentlyUnblockedTabs = {}
    /\ tabUrl = [t \in Tabs |-> NewTab]
    /\ calls = <<>>
    /\ base = defaultState
    /\ runs = <<>>
    /\ InitLate
    /\ ret = NoRet

\* sessions start and end over the large map, and the rules are recompiled
NextCapacity ==
    \/ \E a \in AllowedChoices : StartFocusSession(a, Undefined)
    \/ \E b \in BlockedChoices : StartFocusSessionLegacy(b, Undefined)
    \/ EndFocusSession
    \/ \E enabled \in BOOLEAN : toggleFocusMode(enabled)
    \/ OnStorageChanged

SpecCapacity == InitCapacity /\ [][NextCapacity]_vars

\* overrides from the intercept page during sessions without a timer
NextOverride ==
    \/ \E a \in NavAllowedChoices : StartFocusSession(a, Undefined)
    \/ EndFocusSession
    \/ OnStorageChanged
    \/ \E t \in Tabs, d \in Domains : Navigate(t, d)
    \/ \E t \in Tabs, d \in Domains, c \in OverrideContexts : saveContextOverride(t, d, c)
    \/ \E t \in Tabs : UnblockTimeout(t)

\* chrome delivers every storage.onChanged event to the listener
SpecOverride == InitRace /\ [][NextOverride]_vars /\ WF_vars(OnStorageChanged)

---------------------------------------------------------------------------
(* applyAllowedContexts, await by await *)

\* a run of applyAllowedContexts that has been called and stands at its first
\* await; fs is the focus state it has read, rules the rules it has compiled,
\* ids the rule ids it has read, failed whether updateDynamicRules refused it
NewRun ==
    [pc |-> "readState", fs |-> defaultState, rules |-> {}, ids |-> {}, failed |-> FALSE]

\* the run has not returned yet
Pending(run) == run.pc # "resolved"

PendingRuns == {i \in 1..Len(runs) : Pending(runs[i])}

\* applyAllowedContexts() is called
callApplyAllowedContexts ==
    /\ Cardinality(PendingRuns) < MaxRuns
    /\ runs' = Append(SelectSeq(runs, Pending), NewRun)

\* FOCUS_TOGGLE: toggleFocusMode(enabled), up to the first await of its
\* applyAllowedContexts()
toggleFocusModeCall(enabled) ==
    /\ IF enabled THEN start(TOGGLE_CONTEXTS, Undefined) ELSE end
    /\ callApplyAllowedContexts
    /\ ret' = Ret(IF enabled THEN "start" ELSE "end", None,
                  IF enabled THEN TOGGLE_CONTEXTS ELSE {}, Undefined, TRUE)
    /\ UNCHANGED <<legacy, installReason, now, navVars, raceVars, lateVars>>

\* chrome.storage.onChanged with changes.focusState, up to the first await of
\* its applyAllowedContexts()
OnStorageChangedCall ==
    /\ focusStateChanged
    /\ focusStateChanged' = FALSE
    /\ callApplyAllowedContexts
    /\ ret' = Ret("storageChanged", None, {}, Undefined, TRUE)
    /\ UNCHANGED <<focusState, legacy, installReason, now, recentlyBlocked,
                   blockClearTimer, endTimeCheckInterval, timerVars, navVars, raceVars, lateVars>>

\* applyAllowedContexts: const focusState = await getFocusState()
RunReadState(i) ==
    /\ runs[i].pc = "readState"
    /\ runs' = [runs EXCEPT ![i].fs = getFocusState,
                            ![i].pc = IF getFocusState.active THEN "readMap" ELSE "readIds"]
    /\ ret' = NoRet
    /\ UNCHANGED <<sessionVars, now, navVars, raceVars, lateVars>>

\* applyAllowedContexts: await chrome.storage.local.get('domainContextMap'),
\* and the loop that compiles the rules from it
RunReadMap(i) ==
    /\ runs[i].pc = "readMap"
    /\ runs' = [runs EXCEPT ![i].rules = BuildRules(runs[i].fs, domainContextMap, 1,
                                                    RULE_ID_OFFSET, {}),
                            ![i].pc = "readIds"]
    /\ ret' = NoRet
    /\ UNCHANGED <<sessionVars, now, navVars, raceVars, lateVars>>

\* applyAllowedContexts: removeRuleIds: await getCurrentRuleIds()
RunReadIds(i) ==
    /\ runs[i].pc = "readIds"
    /\ runs' = [runs EXCEPT ![i].ids = getCurrentRuleIds, ![i].pc = "update"]
    /\ ret' = NoRet
    /\ UNCHANGED <<sessionVars, now, navVars, raceVars, lateVars>>

\* applyAllowedContexts: await updateDynamicRules({removeRuleIds, addRules});
\* the catch logs what the call throws and the run returns
RunUpdate(i) ==
    /\ runs[i].pc = "update"
    /\ installedRules' = updateDynamicRules(runs[i].ids, runs[i].rules)
    /\ runs' = [runs EXCEPT ![i].failed = duplicateId(runs[i].ids, runs[i].rules),
                            ![i].pc = "resolved"]
    /\ ret' = [Ret("recompile", None, {}, Undefined, TRUE)
                  EXCEPT !.rulesBefore = Cardinality(installedRules)]
    /\ UNCHANGED <<sessionVars, now, domainContextMap, recentlyUnblockedTabs, tabUrl,
                   raceVars, lateVars>>

\* sessions without a timer start and end while runs of applyAllowedContexts
\* stand at their awaits
NextCompile ==
    \/ \E a \in AllowedChoices : StartFocusSession(a, Undefined)
    \/ EndFocusSession
    \/ \E enabled \in BOOLEAN : toggleFocusModeCall(enabled)
    \/ OnStorageChangedCall
    \/ \E i \in 1..Len(runs) : RunReadState(i)
    \/ \E i \in 1..Len(runs) : RunReadMap(i)
    \/ \E i \in 1..Len(runs) : RunReadIds(i)
    \/ \E i \in 1..Len(runs) : RunUpdate(i)

SpecCompile == InitRace /\ [][NextCompile]_vars

\* ---------------------------------------------------------------------------
\* the drift detector

\* the mutant of DEFAULT_FOCUS_SETTINGS: a window of an hour
DefaultSettingsHourWindow ==
    [enabled |-> TRUE, notificationsEnabled |-> TRUE, switchThreshold |-> 3,
     timeWindowMinutes |-> 60]

\* the focus settings in force when the user has saved none
DEFAULT_FOCUS_SETTINGS ==
    [enabled |-> TRUE, notificationsEnabled |-> TRUE, switchThreshold |-> 3,
     timeWindowMinutes |-> 30]

\* the drift clock advances in steps of twenty minutes, ten periods of the alarm
DriftTickMs == 20 * MsPerMinute

\* the tab chrome.tabs.query({active: true, currentWindow: true}) answers
ActiveTab == 1

\* the categories the observed pages switch between, and a site of each
SwitchContexts == {"Work", "Entertainment"}

SiteOf(context) ==
    IF context = "Work" THEN <<"docs", "google", "com">> ELSE <<"youtube", "com">>

ContextSwitch(from, to) ==
    [from |-> from, to |-> to, timestamp |-> now, fromUrl |-> SiteOf(from),
     toUrl |-> SiteOf(to)]

\* what the drift actions leave alone
driftFrame ==
    UNCHANGED <<sessionVars, raceVars, runs, contextHistory, tasks, unblockTimers,
                notifications>>

\* recordSwitch(from, to, fromUrl, toUrl): the event is appended
recordSwitch(from, to) ==
    /\ Len(contextSwitches) < MaxSwitches
    /\ contextSwitches' = Append(contextSwitches, ContextSwitch(from, to))
    /\ ret' = Ret("recordSwitch", to, {}, Undefined, FALSE)
    /\ driftFrame
    /\ UNCHANGED <<now, navVars>>

\* an event is in the window while it is no older than timeWindowMinutes
inWindow(event) ==
    now - event.timestamp <= DEFAULT_FOCUS_SETTINGS.timeWindowMinutes * MsPerMinute

\* the events a read keeps: the older ones are evicted
keptSwitches == SelectSeq(contextSwitches, inWindow)

\* the switches into a category that is not allowed, among those kept
driftCount ==
    Cardinality({i \in 1..Len(keptSwitches) :
                    keptSwitches[i].to \notin getFocusState.allowedContexts})

\* status(): isLostFocus, contextSwitches and currentContext
focusStatus ==
    [isLostFocus |-> driftCount >= DEFAULT_FOCUS_SETTINGS.switchThreshold,
     contextSwitches |-> keptSwitches,
     currentContext |-> IF keptSwitches = <<>> THEN None
                        ELSE keptSwitches[Len(keptSwitches)].to]

\* onMessage CHECK_FOCUS_STATUS: checkFocusStatus() is answered to the sender
CheckFocusStatus ==
    /\ contextSwitches' = keptSwitches
    /\ ret' = [Ret("status", focusStatus.currentContext, getFocusState.allowedContexts,
                   Undefined, focusStatus.isLostFocus)
                 EXCEPT !.out = contextSwitches, !.n = driftCount]
    /\ driftFrame
    /\ UNCHANGED <<now, navVars>>

\* the pages sendDriftWarning skips: chrome:// and chrome-extension:// pages
isBrowserPage(url) == url \in {NewTab, BlockedPage}

\* sendDriftWarning(focusStatus) for the active tab: the warning is sent to the
\* tab and a notification is shown; when nobody answers the message the tab is
\* sent to the blocked page
sendDriftWarning(tabId, answered) ==
    IF ~getFocusState.active \/ isBrowserPage(tabUrl[tabId])
    THEN /\ UNCHANGED tabUrl
         /\ ret' = [Ret("driftAlarm", None, {}, Undefined, TRUE) EXCEPT !.n = tabId]
    ELSE /\ tabUrl' = IF answered THEN tabUrl
                      ELSE [tabUrl EXCEPT ![tabId] = BlockedPage]
         /\ ret' = [Ret("driftAlarm", None, {}, Undefined, TRUE) EXCEPT
                      !.n = tabId,
                      !.url = Url(tabUrl[tabId], <<>>),
                      !.effects = {"DRIFT_WARNING", "notification"} \cup
                                  (IF answered THEN {} ELSE {"tabs.update"})]

\* onAlarm focusDrift: during a session the status is read, and a lost focus
\* sends the warning
onAlarmFocusDrift ==
    /\ IF getFocusState.active
       THEN /\ contextSwitches' = keptSwitches
            /\ IF focusStatus.isLostFocus
               THEN \E answered \in BOOLEAN : sendDriftWarning(ActiveTab, answered)
               ELSE /\ UNCHANGED tabUrl
                    /\ ret' = Ret("driftAlarm", None, {}, Undefined, FALSE)
       ELSE /\ UNCHANGED <<contextSwitches, tabUrl>>
            /\ ret' = Ret("driftAlarm", None, {}, Undefined, FALSE)
    /\ driftFrame
    /\ UNCHANGED <<now, domainContextMap, installedRules, recentlyUnblockedTabs>>

\* twenty minutes pass
DriftTick ==
    /\ now < StartTime + MaxDriftTicks * DriftTickMs
    /\ now' = now + DriftTickMs
    /\ ret' = NoRet
    /\ driftFrame
    /\ UNCHANGED <<contextSwitches, navVars>>

\* a session in which pages are visited, switches are recorded and the drift
\* alarm runs
NextDrift ==
    \/ \E a \in AllowedChoices : StartFocusSession(a, Undefined)
    \/ EndFocusSession
    \/ \E from, to \in SwitchContexts : from # to /\ recordSwitch(from, to)
    \/ CheckFocusStatus
    \/ onAlarmFocusDrift
    \/ Navigate(ActiveTab, <<"github", "com">>)
    \/ DriftTick

SpecDrift == InitRace /\ [][NextDrift]_vars

\* ---------------------------------------------------------------------------
\* handlers in flight: a task is one call of a handler, suspended at an await

\* kind: the handler; pc: the await it is suspended at; tab and arg: what it was
\* called with; snap: what its latest read of storage answered
Task(kind, pc, tab, arg, snap) ==
    [kind |-> kind, pc |-> pc, tab |-> tab, arg |-> arg, snap |-> snap]

\* the tasks of a handler that are suspended at an await
At(kind, pc) == {i \in 1..Len(tasks) : tasks[i].kind = kind /\ tasks[i].pc = pc}

\* no task is suspended
NoTaskInFlight == \A i \in 1..Len(tasks) : tasks[i].pc = "done"

\* ---------------------------------------------------------------------------
\* storageApi: the context history

HISTORY_LIMIT == 100

\* an entry of the history, as addContextToHistory pushes it
HistoryEntry(context, url, confidence) ==
    [context |-> context, url |-> url, timestamp |-> now, confidence |-> confidence]

\* the history after calls that did not overlap, one a millisecond
HistoryOf(n) ==
    [i \in 1..n |-> [context |-> "Work", url |-> SiteOf("Work"),
                     timestamp |-> StartTime - n + i - 1, confidence |-> 100]]

\* the mutant of capHistory: the cap is tested before the push
capHistoryBeforePush(history, entry) ==
    IF Len(history) > HISTORY_LIMIT THEN Append(Tail(history), entry)
    ELSE Append(history, entry)

\* newHistory.push(entry), and shift() when more than 100 entries are held
capHistory(history, entry) ==
    IF Len(history) + 1 > HISTORY_LIMIT THEN Tail(Append(history, entry))
    ELSE Append(history, entry)

\* what the steps of addContextToHistory leave alone
historyFrame ==
    UNCHANGED <<sessionVars, navVars, raceVars, runs, contextSwitches, unblockTimers,
                notifications>>

\* addContextToHistory(context, url, confidence) is called: getStorage reads
\* the history
addContextToHistoryCall(context, confidence) ==
    /\ Len(tasks) < MaxTasks
    /\ tasks' = Append(tasks, Task("history", "getStorage", 0,
                                   [context |-> context, confidence |-> confidence],
                                   contextHistory))
    /\ ret' = NoRet
    /\ historyFrame
    /\ UNCHANGED <<now, contextHistory>>

\* the call resumes: the entry is pushed onto what was read, the list is
\* capped and written; a millisecond has passed
addContextToHistoryResume(i) ==
    /\ i \in At("history", "getStorage")
    /\ LET entry == HistoryEntry(tasks[i].arg.context, SiteOf(tasks[i].arg.context),
                                 tasks[i].arg.confidence)
       IN /\ contextHistory' = capHistory(tasks[i].snap, entry)
          /\ ret' = [Ret("addContextToHistory", tasks[i].arg.context, {}, Undefined,
                         Len(tasks[i].snap) + 1 > HISTORY_LIMIT)
                       EXCEPT !.out = contextHistory, !.n = i]
    /\ tasks' = [tasks EXCEPT ![i].pc = "done", ![i].snap = <<>>]
    /\ now' = now + 1
    /\ historyFrame

\* a history one entry short of the cap
InitHistory ==
    /\ focusState = {defaultState}
    /\ installReason = "none"
    /\ legacy = NoLegacy
    /\ now = StartTime
    /\ recentlyBlocked = FALSE
    /\ blockClearTimer = Undefined
    /\ endTimeCheckInterval = FALSE
    /\ liveIntervals = 0
    /\ pendingTimeouts = {}
    /\ focusStateChanged = FALSE
    /\ domainContextMap = DOMAIN_CATEGORIES
    /\ installedRules = {}
    /\ recentlyUnblockedTabs = {}
    /\ tabUrl = [t \in Tabs |-> NewTab]
    /\ calls = <<>>
    /\ base = defaultState
    /\ runs = <<>>
    /\ contextSwitches = <<>>
    /\ contextHistory \in {HistoryOf(n) : n \in {0, HISTORY_LIMIT - 1}}
    /\ tasks = <<>>
    /\ unblockTimers = {}
    /\ notifications = <<>>
    /\ ret = NoRet

\* calls of addContextToHistory that overlap
NextHistory ==
    \/ \E c \in SwitchContexts, p \in Confidences : addContextToHistoryCall(c, p)
    \/ \E i \in 1..Len(tasks) : addContextToHistoryResume(i)

SpecHistory == InitHistory /\ [][NextHistory]_vars

\* ---------------------------------------------------------------------------
\* the temporary allow-list with its removal timers on the clock; OverrideBlock
\* and UnblockTimeout above follow the same handlers without the clock

\* the delay of the timeout that takes a tab out of recentlyUnblockedTabs
UNBLOCK_MS == 5000

\* the clock of the allow-list advances in steps of half that delay
UnblockTickMs == UNBLOCK_MS \div 2

\* setTimeout(() => recentlyUnblockedTabs.delete(tabId), 5000): one more timer,
\* the earlier ones of the tab stay armed
armUnblockTimer(tabId) ==
    unblockTimers \cup {[tab |-> tabId, deadline |-> now + UNBLOCK_MS]}

\* what the allow-list actions leave alone
unblockFrame ==
    UNCHANGED <<sessionVars, raceVars, runs, contextSwitches, contextHistory, tasks,
                notifications>>

\* onMessage OVERRIDE_BLOCK from the intercept page shown in tab tabId
onOverrideBlock(tabId) ==
    /\ tabUrl[tabId] = BlockedPage
    /\ recentlyUnblockedTabs' = recentlyUnblockedTabs \cup {tabId}
    /\ unblockTimers' = armUnblockTimer(tabId)
    /\ ret' = [Ret("overrideBlock", None, {}, Undefined, TRUE) EXCEPT !.n = tabId]
    /\ unblockFrame
    /\ UNCHANGED <<now, domainContextMap, installedRules, tabUrl>>

\* the onBeforeNavigate listener and the installed rules, with the timer the
\* listener arms for a tab that comes from the intercept page
onBeforeNavigateTimed(tabId, url) ==
    LET fs       == getFocusState
        domain   == extractDomain(url)
        context  == mapEntry(domainContextMap, domain)
        fromPage == tabUrl[tabId] = BlockedPage
        granted  == ~tabHasPass(tabId) /\ fs.active /\ fromPage
        byListener ==
            /\ ~tabHasPass(tabId)
            /\ fs.active
            /\ ~fromPage
            /\ listenerBlocks(fs, context)
        byRule == \E r \in installedRules : RuleMatches(r, domain)
    IN  /\ recentlyUnblockedTabs' =
              IF granted THEN recentlyUnblockedTabs \cup {tabId}
              ELSE recentlyUnblockedTabs
        /\ unblockTimers' = IF granted THEN armUnblockTimer(tabId) ELSE unblockTimers
        /\ tabUrl' = [tabUrl EXCEPT ![tabId] =
                         IF byListener \/ byRule THEN BlockedPage ELSE domain]
        /\ ret' = [Ret("navigate", context, {}, Undefined, byListener \/ byRule)
                      EXCEPT !.pass = tabHasPass(tabId) \/ fromPage, !.url = url]
        /\ unblockFrame
        /\ UNCHANGED <<now, domainContextMap, installedRules>>

\* a removal timer fires, at its deadline or later
unblockTimerFires(timer) ==
    /\ timer \in unblockTimers
    /\ timer.deadline <= now
    /\ unblockTimers' = unblockTimers \ {timer}
    /\ recentlyUnblockedTabs' = recentlyUnblockedTabs \ {timer.tab}
    /\ ret' = [Ret("unblockTimeout", None, {}, Undefined, TRUE) EXCEPT !.n = timer.tab]
    /\ unblockFrame
    /\ UNCHANGED <<now, domainContextMap, installedRules, tabUrl>>

\* two and a half seconds pass
UnblockTick ==
    /\ now < StartTime + MaxTicks * UnblockTickMs
    /\ now' = now + UnblockTickMs
    /\ ret' = NoRet
    /\ unblockFrame
    /\ UNCHANGED <<navVars, unblockTimers>>

\* a session in which tabs are sent to the intercept page and continue from it
NextUnblock ==
    \/ \E a \in NavAllowedChoices : StartFocusSession(a, Undefined)
    \/ \E t \in Tabs : onBeforeNavigateTimed(t, Url(<<"youtube", "com">>, <<>>))
    \/ \E t \in Tabs : onOverrideBlock(t)
    \/ \E timer \in unblockTimers : unblockTimerFires(timer)
    \/ UnblockTick

SpecUnblock == InitRace /\ [][NextUnblock]_vars

\* ---------------------------------------------------------------------------
\* the expiry of a session, followed await by await: the interval callback of
\* start() and checkFocusSessionStatus of the focusTick alarm

\* what a task keeps besides its latest read: the endTime it saw expired, and
\* whether it has called end()
NoArg == [endTime |-> Undefined, ended |-> FALSE]

\* what the steps of these handlers leave alone
taskFrame ==
    UNCHANGED <<legacy, installReason, raceVars, runs, contextSwitches, contextHistory,
                unblockTimers>>

\* a handler is called: its first read of the focus state is issued
spawn(kind, tab, arg) ==
    /\ Len(tasks) < MaxTasks
    /\ tasks' = Append(tasks, Task(kind, "getFocusState", tab, arg, getFocusState))

\* no call of the handler is still on its way: the periods of the interval
\* and of the alarm are far longer than a storage round trip
NoneInFlight(kind) ==
    \A i \in 1..Len(tasks) : tasks[i].kind = kind => tasks[i].pc = "done"

\* the session a read answered is active and past its endTime
expired(fs) == fs.active /\ Truthy(fs.endTime) /\ fs.endTime <= now

\* the interval of start() fires: const focusState = await getFocusState()
intervalFires ==
    /\ liveIntervals > 0
    /\ NoneInFlight("interval")
    /\ spawn("interval", 0, NoArg)
    /\ ret' = NoRet
    /\ taskFrame
    /\ UNCHANGED <<focusState, focusStateChanged, recentlyBlocked, blockClearTimer,
                   endTimeCheckInterval, timerVars, now, navVars, notifications>>

\* the callback goes on: for an expired session end() is called, not awaited,
\* and the notification 'Focus Session Ended' is created
intervalResumes(i) ==
    /\ i \in At("interval", "getFocusState")
    /\ LET fs == tasks[i].snap
       IN IF expired(fs)
          THEN /\ tasks' = [tasks EXCEPT ![i].pc = "end.getFocusState",
                                         ![i].snap = getFocusState,
                                         ![i].arg = [endTime |-> fs.endTime,
                                                     ended |-> TRUE]]
               /\ notifications' = Append(notifications,
                      [title |-> "Focus Session Ended", endTime |-> fs.endTime])
          ELSE /\ tasks' = [tasks EXCEPT ![i].pc = "done"]
               /\ UNCHANGED notifications
    /\ ret' = Ret("expiry", None, {}, Undefined, expired(tasks[i].snap))
    /\ taskFrame
    /\ UNCHANGED <<focusState, focusStateChanged, recentlyBlocked, blockClearTimer,
                   endTimeCheckInterval, timerVars, now, navVars>>

\* the focusTick alarm: const endTime = (await getFocusState()).endTime
alarmFires ==
    /\ NoneInFlight("alarm")
    /\ spawn("alarm", 0, NoArg)
    /\ ret' = NoRet
    /\ taskFrame
    /\ UNCHANGED <<focusState, focusStateChanged, recentlyBlocked, blockClearTimer,
                   endTimeCheckInterval, timerVars, now, navVars, notifications>>

\* checkFocusSessionStatus goes on: past the endTime, await focusEngine.isActive()
alarmResumes(i) ==
    /\ i \in At("alarm", "getFocusState")
    /\ LET endTime == tasks[i].snap.endTime
       IN tasks' = IF Truthy(endTime) /\ now >= endTime
                   THEN [tasks EXCEPT ![i].pc = "isActive", ![i].snap = getFocusState,
                                      ![i].arg = [endTime |-> endTime, ended |-> FALSE]]
                   ELSE [tasks EXCEPT ![i].pc = "done"]
    /\ ret' = NoRet
    /\ taskFrame
    /\ UNCHANGED <<focusState, focusStateChanged, recentlyBlocked, blockClearTimer,
                   endTimeCheckInterval, timerVars, now, navVars, notifications>>

\* checkFocusSessionStatus goes on: if (active) await focusEngine.end()
alarmIsActive(i) ==
    /\ i \in At("alarm", "isActive")
    /\ tasks' = IF tasks[i].snap.active
                THEN [tasks EXCEPT ![i].pc = "end.getFocusState",
                                   ![i].snap = getFocusState, ![i].arg.ended = TRUE]
                ELSE [tasks EXCEPT ![i].pc = "done"]
    /\ ret' = NoRet
    /\ taskFrame
    /\ UNCHANGED <<focusState, focusStateChanged, recentlyBlocked, blockClearTimer,
                   endTimeCheckInterval, timerVars, now, navVars, notifications>>

\* end() of a task, in setFocusState: the state read is merged and written
endWrites(i) ==
    /\ i \in 1..Len(tasks)
    /\ tasks[i].pc = "end.getFocusState"
    /\ focusState' = {spread(tasks[i].snap, endFields)}
    /\ focusStateChanged' = TRUE
    /\ tasks' = [tasks EXCEPT ![i].pc = "end.setStorage"]
    /\ ret' = NoRet
    /\ taskFrame
    /\ UNCHANGED <<recentlyBlocked, blockClearTimer, endTimeCheckInterval, timerVars,
                   now, navVars, notifications>>

\* end() of a task goes on after setFocusState to its last statement; the
\* alarm, which awaited it, creates the notification 'Focus Session Complete'
endResumes(i) ==
    /\ i \in 1..Len(tasks)
    /\ tasks[i].pc = "end.setStorage"
    /\ endTimers
    /\ tasks' = [tasks EXCEPT ![i].pc = "done"]
    /\ notifications' =
          IF tasks[i].kind = "alarm"
          THEN Append(notifications, [title |-> "Focus Session Complete",
                                      endTime |-> tasks[i].arg.endTime])
          ELSE notifications
    /\ ret' = [Ret("ended", None, {}, Undefined, TRUE) EXCEPT !.n = i]
    /\ taskFrame
    /\ UNCHANGED <<focusState, focusStateChanged, now, navVars>>

\* the clock steps while no handler is suspended: a storage round trip is far
\* shorter than a step of the clock
TickQuiet == NoTaskInFlight /\ Tick

\* a timed session whose end the interval and the alarm both look for
NextExpiry ==
    \/ StartFocusSession({"Work", "Development"}, 1)
    \/ TickQuiet
    \/ intervalFires
    \/ alarmFires
    \/ \E i \in 1..Len(tasks) :
          \/ intervalResumes(i)
          \/ alarmResumes(i)
          \/ alarmIsActive(i)
          \/ endWrites(i)
          \/ endResumes(i)

SpecExpiry == InitRace /\ [][NextExpiry]_vars

\* ---------------------------------------------------------------------------
\* the handlers of the background page followed await by await, next to an
\* end() that is on its way

\* isBlocked, decided on the focus state its await of getFocusState answered
isBlockedGiven(fs, context) ==
    IF ~fs.active THEN FALSE
    ELSE IF context \in fs.allowedContexts THEN FALSE
    ELSE TRUE

\* onMessage END_FOCUS_SESSION: focusEngine.end() is called and reads the state
endMessage ==
    /\ Len(tasks) < MaxTasks
    /\ tasks' = Append(tasks, Task("endMessage", "end.getFocusState", 0, NoArg,
                                   getFocusState))
    /\ ret' = NoRet
    /\ taskFrame
    /\ UNCHANGED <<focusState, focusStateChanged, recentlyBlocked, blockClearTimer,
                   endTimeCheckInterval, timerVars, now, navVars, notifications>>

\* onBeforeNavigate for a top-level navigation of tab tabId to url: a tab with
\* a pass is let through at once, otherwise the focus state is read
navigationStarts(tabId, url) ==
    /\ Len(tasks) < MaxTasks
    /\ \A i \in 1..Len(tasks) : tasks[i].tab = tabId => tasks[i].pc = "done"
    /\ tasks' = Append(tasks,
          Task("navigate", IF tabHasPass(tabId) THEN "commit" ELSE "getFocusState",
               tabId, [url |-> url, map |-> <<>>], getFocusState))
    /\ ret' = NoRet
    /\ taskFrame
    /\ UNCHANGED <<focusState, focusStateChanged, recentlyBlocked, blockClearTimer,
                   endTimeCheckInterval, timerVars, now, navVars, notifications>>

\* the listener goes on after getFocusState: without a session it returns;
\* coming from the intercept page the tab gets its pass; otherwise the map is
\* read (chrome.tabs.get answers what the tab shows)
navigationResumes(i) ==
    /\ i \in At("navigate", "getFocusState")
    /\ LET tabId    == tasks[i].tab
           fromPage == tabUrl[tabId] = BlockedPage
       IN IF ~tasks[i].snap.active
          THEN /\ tasks' = [tasks EXCEPT ![i].pc = "commit"]
               /\ UNCHANGED recentlyUnblockedTabs
          ELSE IF fromPage
          THEN /\ tasks' = [tasks EXCEPT ![i].pc = "commit"]
               /\ recentlyUnblockedTabs' = recentlyUnblockedTabs \cup {tabId}
          ELSE /\ tasks' = [tasks EXCEPT ![i].pc = "storage.get",
                                         ![i].arg.map = domainContextMap]
               /\ UNCHANGED recentlyUnblockedTabs
    /\ ret' = NoRet
    /\ taskFrame
    /\ UNCHANGED <<focusState, focusStateChanged, recentlyBlocked, blockClearTimer,
                   endTimeCheckInterval, timerVars, now, domainContextMap,
                   installedRules, tabUrl, notifications>>

\* the listener goes on after the map is read: a domain whose context is not
\* in the allowedContexts read at the start is redirected
navigationDecides(i) ==
    /\ i \in At("navigate", "storage.get")
    /\ LET tabId   == tasks[i].tab
           domain  == extractDomain(tasks[i].arg.url)
           context == mapEntry(tasks[i].arg.map, domain)
           blocked == listenerBlocks(tasks[i].snap, context)
       IN /\ tabUrl' = [tabUrl EXCEPT ![tabId] = IF blocked THEN BlockedPage ELSE @]
          /\ tasks' = [tasks EXCEPT ![i].pc = IF blocked THEN "done" ELSE "commit"]
          /\ ret' = [Ret("listener", context, tasks[i].snap.allowedContexts,
                         Undefined, blocked)
                       EXCEPT !.url = tasks[i].arg.url, !.n = tabId]
    /\ taskFrame
    /\ UNCHANGED <<focusState, focusStateChanged, recentlyBlocked, blockClearTimer,
                   endTimeCheckInterval, timerVars, now, domainContextMap,
                   installedRules, recentlyUnblockedTabs, notifications>>

\* a navigation the listener did not redirect commits, unless an installed
\* rule redirects the request
navigationCommits(i) ==
    /\ i \in At("navigate", "commit")
    /\ LET domain == extractDomain(tasks[i].arg.url)
           byRule == \E r \in installedRules : RuleMatches(r, domain)
       IN tabUrl' = [tabUrl EXCEPT ![tasks[i].tab] =
                        IF byRule THEN BlockedPage ELSE domain]
    /\ tasks' = [tasks EXCEPT ![i].pc = "done"]
    /\ ret' = NoRet
    /\ taskFrame
    /\ UNCHANGED <<focusState, focusStateChanged, recentlyBlocked, blockClearTimer,
                   endTimeCheckInterval, timerVars, now, domainContextMap,
                   installedRules, recentlyUnblockedTabs, notifications>>

\* handleContextUpdate(tabId, context, contextData) for the page tab tabId
\* shows: the map is read
contextUpdateStarts(tabId, context) ==
    /\ Len(tasks) < MaxTasks
    /\ tabUrl[tabId] \in Domains
    /\ tasks' = Append(tasks, Task("contextUpdate", "storage.get", tabId,
                                   [domain |-> tabUrl[tabId], context |-> context,
                                    wrote |-> 0],
                                   domainContextMap))
    /\ ret' = NoRet
    /\ taskFrame
    /\ UNCHANGED <<focusState, focusStateChanged, recentlyBlocked, blockClearTimer,
                   endTimeCheckInterval, timerVars, now, navVars, notifications>>

\* the writes of the map are numbered in the order they are made
Writers == {i \in 1..Len(tasks) : tasks[i].kind \in {"contextUpdate", "override"}
                                   /\ tasks[i].arg.wrote > 0}

nextWrite == Cardinality(Writers) + 1

\* the handler goes on after the map is read: a new entry is set in the map
\* read and the whole map is written
contextUpdateWrites(i) ==
    /\ i \in At("contextUpdate", "storage.get")
    /\ LET domain == tasks[i].arg.domain
           context == tasks[i].arg.context
       IN IF tasks[i].snap[domain] # context
          THEN /\ domainContextMap' = [tasks[i].snap EXCEPT ![domain] = context]
               /\ tasks' = [tasks EXCEPT ![i].pc = "storage.set", ![i].snap = <<>>,
                                         ![i].arg.wrote = nextWrite]
          ELSE /\ UNCHANGED domainContextMap
               /\ tasks' = [tasks EXCEPT ![i].pc = "done", ![i].snap = <<>>]
    /\ ret' = [Ret("mapWrite", tasks[i].arg.context, {}, Undefined,
                   tasks[i].snap[tasks[i].arg.domain] # tasks[i].arg.context)
                 EXCEPT !.url = Url(tasks[i].arg.domain, <<>>), !.n = i]
    /\ taskFrame
    /\ UNCHANGED <<focusState, focusStateChanged, recentlyBlocked, blockClearTimer,
                   endTimeCheckInterval, timerVars, now, installedRules,
                   recentlyUnblockedTabs, tabUrl, notifications>>

\* the handler goes on after the write: await applyAllowedContexts(), then
\* focusEngine.isBlocked(context) reads the focus state
contextUpdateCompiles(i) ==
    /\ i \in At("contextUpdate", "storage.set")
    /\ installedRules' = applyAllowedContexts(getFocusState, domainContextMap)
    /\ tasks' = [tasks EXCEPT ![i].pc = "isBlocked", ![i].snap = getFocusState]
    /\ ret' = NoRet
    /\ taskFrame
    /\ UNCHANGED <<focusState, focusStateChanged, recentlyBlocked, blockClearTimer,
                   endTimeCheckInterval, timerVars, now, domainContextMap,
                   recentlyUnblockedTabs, tabUrl, notifications>>

\* isBlocked goes on after getFocusState: a blocked context raises the flag
\* and restarts the cool-down, and the handler redirects the tab
contextUpdateIsBlocked(i) ==
    /\ i \in At("contextUpdate", "isBlocked")
    /\ LET blocked == isBlockedGiven(tasks[i].snap, tasks[i].arg.context)
       IN /\ IF blocked
             THEN /\ recentlyBlocked' = TRUE
                  /\ pendingTimeouts' = restartCoolDown
                  /\ blockClearTimer' = now + BLOCK_CLEAR_MS
                  /\ tabUrl' = [tabUrl EXCEPT ![tasks[i].tab] = BlockedPage]
             ELSE UNCHANGED <<recentlyBlocked, blockClearTimer, pendingTimeouts, tabUrl>>
          /\ ret' = [Ret("isBlocked", tasks[i].arg.context, tasks[i].snap.allowedContexts,
                         Undefined, blocked)
                       EXCEPT !.n = tasks[i].tab]
    /\ tasks' = [tasks EXCEPT ![i].pc = "done", ![i].snap = <<>>]
    /\ taskFrame
    /\ UNCHANGED <<focusState, focusStateChanged, endTimeCheckInterval, liveIntervals,
                   now, domainContextMap, installedRules, recentlyUnblockedTabs,
                   notifications>>

\* a session in which pages are visited and classified while it is ended
NextAwait ==
    \/ StartFocusSession({"Work", "Development"}, Undefined)
    \/ endMessage
    \/ \E t \in Tabs : navigationStarts(t, Url(<<"youtube", "com">>, <<>>))
    \/ \E t \in Tabs : navigationStarts(t, Url(<<"example", "org">>, <<>>))
    \/ \E t \in Tabs, c \in DetectedContexts : contextUpdateStarts(t, c)
    \/ \E i \in 1..Len(tasks) :
          \/ endWrites(i)
          \/ endResumes(i)
          \/ navigationResumes(i)
          \/ navigationDecides(i)
          \/ navigationCommits(i)
          \/ contextUpdateWrites(i)
          \/ contextUpdateCompiles(i)
          \/ contextUpdateIsBlocked(i)

SpecAwait == InitRace /\ [][NextAwait]_vars

\* ---------------------------------------------------------------------------
\* the writers of the domain map, followed await by await

\* blocked.ts, "save and continue" on the intercept page tab tabId shows for a
\* page of domain, with an allowed context: saveContextOverride reads the map
overrideStarts(tabId, domain, context) ==
    /\ Len(tasks) < MaxTasks
    /\ tabUrl[tabId] = BlockedPage
    /\ context \in getFocusState.allowedContexts
    /\ tasks' = Append(tasks, Task("override", "storage.get", tabId,
                                   [domain |-> domain, context |-> context, wrote |-> 0],
                                   domainContextMap))
    /\ ret' = NoRet
    /\ taskFrame
    /\ UNCHANGED <<focusState, focusStateChanged, recentlyBlocked, blockClearTimer,
                   endTimeCheckInterval, timerVars, now, navVars, notifications>>

\* saveContextOverride goes on: the entry is set in the map read and the whole
\* map is written
overrideWrites(i) ==
    /\ i \in At("override", "storage.get")
    /\ domainContextMap' =
          [tasks[i].snap EXCEPT ![tasks[i].arg.domain] = tasks[i].arg.context]
    /\ tasks' = [tasks EXCEPT ![i].pc = "storage.set", ![i].snap = <<>>,
                              ![i].arg.wrote = nextWrite]
    /\ ret' = [Ret("mapWrite", tasks[i].arg.context, {}, Undefined, TRUE)
                 EXCEPT !.url = Url(tasks[i].arg.domain, <<>>), !.n = i]
    /\ taskFrame
    /\ UNCHANGED <<focusState, focusStateChanged, recentlyBlocked, blockClearTimer,
                   endTimeCheckInterval, timerVars, now, installedRules,
                   recentlyUnblockedTabs, tabUrl, notifications>>

\* the click handler goes on after the write: CONTEXT_OVERRIDE is acknowledged
\* and OVERRIDE_BLOCK gives the tab its pass
overrideResumes(i) ==
    /\ i \in At("override", "storage.set")
    /\ recentlyUnblockedTabs' = recentlyUnblockedTabs \cup {tasks[i].tab}
    /\ tasks' = [tasks EXCEPT ![i].pc = "done"]
    /\ ret' = NoRet
    /\ taskFrame
    /\ UNCHANGED <<focusState, focusStateChanged, recentlyBlocked, blockClearTimer,
                   endTimeCheckInterval, timerVars, now, domainContextMap,
                   installedRules, tabUrl, notifications>>

\* pages are classified by the content script and on the intercept page: tab 1
\* is sent to a blocked site, the other tabs visit sites that are not blocked
NextMap ==
    \/ StartFocusSession({"Work", "Development"}, Undefined)
    \/ Navigate(1, <<"youtube", "com">>)
    \/ \E t \in Tabs \ {1} : Navigate(t, <<"github", "com">>)
    \/ \E t \in Tabs, c \in DetectedContexts : contextUpdateStarts(t, c)
    \/ \E t \in Tabs, c \in OverrideContexts :
          overrideStarts(t, <<"youtube", "com">>, c)
    \/ \E i \in 1..Len(tasks) :
          \/ contextUpdateWrites(i)
          \/ contextUpdateCompiles(i)
          \/ contextUpdateIsBlocked(i)
          \/ overrideWrites(i)
          \/ overrideResumes(i)

SpecMap == InitRace /\ [][NextMap]_vars


---------------------------------------------------------------------------
(* The claims *)

AllContexts == KNOWN_CONTEXTS \cup OtherContexts \cup {None}

\* C1: while the session is inactive isBlocked answers false for every
\* context, whatever allowedContexts and endTime hold, and every call made
\* in that state returned false.
C1_InactiveBlocksNothing ==
    ~getFocusState.active =>
        /\ \A c \in AllContexts : ~isBlocked(c)
        /\ (ret.op = "isBlocked" => ~ret.val)

\* an isBlocked call answered in an inactive state that still holds an
\* allow-list without the asked context, and an endTime
C1_Witness ==
    /\ ret.op = "isBlocked"
    /\ ~getFocusState.active
    /\ getFocusState.allowedContexts # {}
    /\ ret.ctx \notin getFocusState.allowedContexts
    /\ getFocusState.endTime # Undefined
    /\ ~ret.val

\* C2 (as claimed): for every domain without a recorded category, isBlocked of
\* its classification is false in every state of the session.
C2_FailOpen ==
    \A d \in Domains :
        (domainContextMap[d] = None /\ getDomainCategory(d) = None)
            => ~isBlocked(getDomainCategory(d))

\* C3: in an active session isBlocked(c) is exactly (c not in allowedContexts),
\* for the call just answered and for every context, whatever the
\* recently-blocked flag and its timer hold.
C3_BlockedIffNotAllowed ==
    getFocusState.active =>
        /\ \A c \in AllContexts :
              isBlocked(c) = (c \notin getFocusState.allowedContexts)
        /\ (ret.op = "isBlocked" =>
              ret.val = (ret.ctx \notin getFocusState.allowedContexts))

\* a call that answered false for an allowed context while the flag of an
\* earlier block was still set and its timer pending
C3_Witness ==
    /\ ret.op = "isBlocked"
    /\ getFocusState.active
    /\ recentlyBlocked
    /\ blockClearTimer # Undefined
    /\ ret.ctx \in getFocusState.allowedContexts
    /\ ~ret.val

\* C4 (as claimed): in an active session every top-level navigation to a
\* domain whose recorded category is not allowed is redirected to the
\* intercept page, in every tab.
C4_EveryBlockedNavigationIntercepted ==
    (/\ ret.op = "navigate"
     /\ getFocusState.active
     /\ ret.ctx # None
     /\ ret.ctx \notin getFocusState.allowedContexts) => ret.val

\* C4 (amended): in an active session every top-level navigation to a domain
\* whose recorded category is not allowed is redirected to the intercept page,
\* unless the tab is in recentlyUnblockedTabs or shows the intercept page.
C4_BlockedNavigationInterceptedWithoutPass ==
    (/\ ret.op = "navigate"
     /\ getFocusState.active
     /\ ret.ctx # None
     /\ ret.ctx \notin getFocusState.allowedContexts
     /\ ~ret.pass) => ret.val

\* a navigation the listener alone redirected: no rule was installed
C4_Witness ==
    /\ ret.op = "navigate"
    /\ getFocusState.active
    /\ ret.ctx # None
    /\ ret.ctx \notin getFocusState.allowedContexts
    /\ ~ret.pass
    /\ installedRules = {}
    /\ ret.val

\* C5 (as claimed): whenever the persisted session is inactive its endTime is
\* unset.
C5_InactiveHasNoEndTime ==
    ~getFocusState.active => getFocusState.endTime = Undefined

C7_EmptyAllowListBlocksAll ==
    /\ (ret.op = "start" /\ ret.allowed = {}) =>
          (getFocusState.active /\ getFocusState.allowedContexts = {})
    /\ (getFocusState.active /\ getFocusState.allowedContexts = {}) =>
          /\ \A c \in KNOWN_CONTEXTS : isBlocked(c)
          /\ (ret.op = "isBlocked" /\ ret.ctx \in KNOWN_CONTEXTS => ret.val)

\* start([]) has just completed
C7_Witness ==
    /\ ret.op = "start"
    /\ ret.allowed = {}
    /\ getFocusState.active
    /\ getFocusState.allowedContexts = {}

\* C8 (as claimed): end() on an inactive session leaves the three fields as
\* they were.
C8_EndOnInactiveChangesNothing ==
    [][(~getFocusState.active /\ ret'.op = "end") => getFocusState' = getFocusState]_vars

\* C9 (as claimed): after start(allowed, d) the session is active with
\* allowedContexts = allowed, and endTime is the call time plus d minutes when
\* d is given (0 included) and unset when it is not.
C9_StartSetsState ==
    ret.op = "start" =>
        getFocusState =
            [active |-> TRUE, allowedContexts |-> ret.allowed,
             endTime |-> IF ret.d # Undefined THEN now + ret.d * MsPerMinute
                         ELSE Undefined]

\* C10 (as claimed): only an explicit end() makes an active session without
\* endTime inactive.
C10_UnlimitedEndsOnlyByEnd ==
    [][(/\ getFocusState.active
        /\ getFocusState.endTime = Undefined
        /\ ~getFocusState'.active) => ret'.op = "end"]_vars

\* an active session whose endTime has passed
Expired ==
    /\ getFocusState.active
    /\ getFocusState.endTime # Undefined
    /\ getFocusState.endTime <= now

\* C11: while the focusTick alarm keeps firing, an active session whose endTime
\* has passed does not stay: the first run of the periodic check that finds it
\* makes it inactive and clears endTime.
C11_ExpiryWithinOneTick ==
    /\ [][(Expired /\ ret'.op = "alarm") =>
            (~getFocusState'.active /\ getFocusState'.endTime = Undefined)]_vars
    /\ (Expired ~> ~Expired)

\* the periodic check has just ended a session at the very millisecond of its
\* endTime
C11_Witness ==
    /\ ret.op = "alarm"
    /\ ret.val
    /\ ~getFocusState.active
    /\ getFocusState.endTime = Undefined
    /\ now = StartTime + 2 * TickMs

\* C12 (as claimed): getTimeLeft() called right after start(allowed, d) with
\* d > 0 answers a number of seconds within one second of d * 60.
C12_TimeLeftRoundTrip ==
    (ret.op = "timeLeft" /\ ret.d > 0) =>
        (ret.n >= ret.d * 60 - 1 /\ ret.n <= ret.d * 60 + 1)

\* what the claims take getTimeLeft() to answer, in seconds
SecondsLeft ==
    IF ~getFocusState.active \/ getFocusState.endTime = Undefined THEN 0
    ELSE Max(0, getFocusState.endTime - now) \div 1000

\* C13 (as claimed): getTimeLeft() answers 0 when the session is inactive or
\* has no endTime, and max(0, endTime - now) in seconds otherwise; the answer
\* is never negative.
C13_TimeLeftValue ==
    ret.op = "timeLeft" => (ret.n = SecondsLeft /\ ret.n >= 0)

\* an end() has just completed: asked for, or made by one of the expiry checks
EndCompleted ==
    \/ ret.op = "end"
    \/ (ret.op \in {"expiry", "alarm"} /\ ret.val)

\* C14 (as claimed): after every start() the expiry interval is armed, and
\* after every end() none is.
C14_ArmedAfterStartDisarmedAfterEnd ==
    /\ ret.op = "start" => (endTimeCheckInterval /\ liveIntervals > 0)
    /\ EndCompleted => (~endTimeCheckInterval /\ liveIntervals = 0)

\* C14 (amended): after every start() that sets an endTime the expiry interval
\* is armed, and after every end(), asked for or by expiry, none is.
C14_ArmedAfterTimedStartDisarmedAfterEnd ==
    /\ (ret.op = "start" /\ getFocusState.endTime # Undefined) =>
          (endTimeCheckInterval /\ liveIntervals > 0)
    /\ EndCompleted => (~endTimeCheckInterval /\ liveIntervals = 0)

\* the interval a timed start armed has ended the session itself, and no
\* interval is left
C14_Witness ==
    /\ ret.op = "expiry"
    /\ ret.val
    /\ ~getFocusState.active
    /\ liveIntervals = 0

\* C15: at most one expiry interval runs at any time, and it is the one the
\* handle names.
C15_AtMostOneInterval ==
    /\ liveIntervals <= 1
    /\ endTimeCheckInterval = (liveIntervals = 1)

\* a timed start has completed while the interval of an earlier start was
\* running, and one interval runs
C15_Witness ==
    /\ ret.op = "start"
    /\ ret.before = 1
    /\ getFocusState.endTime # Undefined
    /\ liveIntervals = 1

\* the flag goes from set to clear in this step
FlagClears == recentlyBlocked /\ ~recentlyBlocked'

\* C16 (as claimed): at most one cool-down timeout is pending, and the flag
\* never clears before a full cool-down has passed since the latest block.
C16_OneCoolDownNeverEarly ==
    /\ [](Cardinality(pendingTimeouts) <= 1)
    /\ [][FlagClears => (blockClearTimer # Undefined /\ now >= blockClearTimer)]_vars

\* C16 (amended): at most one cool-down timeout is pending; a block decision
\* leaves exactly the timeout it starts, due a full cool-down later; while the
\* flag is set that timeout is pending; and the flag clears before its
\* deadline only when end() runs or the worker starts again.
C16_OneCoolDownEarlyOnlyByEnd ==
    /\ [](Cardinality(pendingTimeouts) <= 1)
    /\ []((ret.op = "isBlocked" /\ ret.val) =>
             pendingTimeouts = {now + BLOCK_CLEAR_MS})
    /\ [](recentlyBlocked => pendingTimeouts = {blockClearTimer})
    /\ [][FlagClears =>
            \/ (blockClearTimer # Undefined /\ now >= blockClearTimer)
            \/ ret'.op \in {"end", "expiry", "alarm", "init"}]_vars

\* a block decision made while the cool-down of an earlier block, due
\* sooner, was pending: the only timeout left is the fresh one
C16_Witness ==
    /\ ret.op = "isBlocked"
    /\ ret.val
    /\ ret.before = 1
    /\ now > StartTime
    /\ recentlyBlocked
    /\ pendingTimeouts = {now + BLOCK_CLEAR_MS}

\* the focus states that running the calls ids one after the other, in some
\* order, leaves when started in fs
RECURSIVE SerialResults(_, _)
SerialResults(fs, ids) ==
    IF ids = {} THEN {fs}
    ELSE UNION {SerialResults(spread(fs, calls[i].fields), ids \ {i}) : i \in ids}

\* C17 (as claimed): once overlapping start() and end() calls have all
\* completed, the persisted focus state is what running them one after the
\* other, in some order, would have left.
C17_MutationsSerializable ==
    (calls # <<>> /\ Quiet) =>
        getFocusState \in SerialResults(base, 1..Len(calls))

\* the handler that has just completed ran applyAllowedContexts
Recompiled == ret.rulesBefore # Undefined

\* C18: when applyAllowedContexts has run for an inactive session, no dynamic
\* rule is installed, whatever was installed before.
C18_InactiveRecompileRemovesAll ==
    (Recompiled /\ ~getFocusState.active) => installedRules = {}

\* a recompile for an inactive session that found a rule installed
C18_Witness ==
    /\ Recompiled
    /\ ret.rulesBefore >= 1
    /\ ~getFocusState.active
    /\ installedRules = {}

\* some installed rule redirects a request for a page of domain d
Matched(d) == \E r \in installedRules : RuleMatches(r, d)

\* C19 (as claimed): after applyAllowedContexts has run in an active session,
\* every domain recorded under a context outside allowedContexts is matched by
\* an installed rule, and no domain recorded under an allowed context is.
C19_CompilerCoverage ==
    (Recompiled /\ getFocusState.active) =>
        \A d \in Domains :
            /\ (domainContextMap[d] # None
                 /\ domainContextMap[d] \notin getFocusState.allowedContexts)
                   => Matched(d)
            /\ domainContextMap[d] \in getFocusState.allowedContexts => ~Matched(d)

\* C20 (as claimed): no installed rule lists a domain that has no recorded
\* context.
C20_UnmappedDomainInNoRule ==
    \A r \in installedRules : \A d \in r.domains : domainContextMap[d] # None

\* what applyAllowedContexts installs when it runs alone on fs and map
Compiled(fs, map) ==
    IF fs.active THEN BuildRules(fs, map, 1, RULE_ID_OFFSET, {}) ELSE {}

\* no run of applyAllowedContexts is under way and no storage event is waiting
Settled == PendingRuns = {} /\ ~focusStateChanged

\* C21: once every pending handler has completed, the installed rules are the
\* compilation of the persisted focus state and domain map, whatever the
\* interleaving of the overlapping runs of applyAllowedContexts was
C21_SettledRulesAreLatestCompilation ==
    Settled => installedRules = Compiled(getFocusState, domainContextMap)

\* C23: no run of applyAllowedContexts has its updateDynamicRules refused for
\* a duplicate rule id, and no two installed rules share an id
C23_SwapNeverMeetsDuplicateId ==
    /\ \A i \in 1..Len(runs) : ~runs[i].failed
    /\ \A r, k \in installedRules : r.id = k.id => r = k

\* C25: a run of applyAllowedContexts whose updateDynamicRules was refused
\* does not return normally to its caller
C25_InstallFailureReachesCaller ==
    \A i \in 1..Len(runs) : runs[i].failed => runs[i].pc # "resolved"

\* the intercept page has just saved an override for domain d
Overridden(d) == ret.op = "override" /\ ret.url.hostname = d

\* C22: an override saved from the intercept page is followed by a recompile:
\* the domain it re-maps to an allowed category is eventually matched by no
\* installed rule
C22_OverrideLeadsToRecompile ==
    \A d \in Domains : (Overridden(d) ~> ~Matched(d))

\* the domains of map whose category is a known context that fs does not allow
BlockedDomains(fs, map) ==
    {d \in DOMAIN map : \E i \in 1..Len(getAllKnownContexts) :
                            /\ map[d] = getAllKnownContexts[i]
                            /\ map[d] \notin fs.allowedContexts}

\* the known contexts fs does not allow and map has a domain for
BlockedContextsInUse(fs, map) ==
    {i \in 1..Len(getAllKnownContexts) :
        /\ getAllKnownContexts[i] \notin fs.allowedContexts
        /\ domainsByContext(map, getAllKnownContexts[i]) # {}}

\* C24, as stated: a recompile for more blocked-category domains than the
\* ceiling installs exactly MAX_DNR_RULES rules and reports the truncation
C24_OverCeilingInstallsCeiling ==
    (/\ Recompiled
     /\ getFocusState.active
     /\ Cardinality(BlockedDomains(getFocusState, domainContextMap)) > MAX_DNR_RULES)
    => /\ Cardinality(installedRules) = MAX_DNR_RULES
       /\ reportsTruncation(getFocusState, domainContextMap)

\* C24, amended: a recompile installs one rule for each blocked category that
\* has a domain, however many domains there are, and reports no truncation;
\* the number of installed rules never exceeds the number of known contexts,
\* hence never the ceiling
C24_OneRulePerBlockedCategory ==
    /\ Cardinality(installedRules) <= Len(getAllKnownContexts)
    /\ Cardinality(installedRules) <= MAX_DNR_RULES
    /\ (Recompiled /\ getFocusState.active)
       => /\ Cardinality(installedRules) =
                Cardinality(BlockedContextsInUse(getFocusState, domainContextMap))
          /\ ~reportsTruncation(getFocusState, domainContextMap)

\* a session is active, more domains than the ceiling are of a blocked
\* category, and the recompile has installed its rules
C24_Witness ==
    /\ Recompiled
    /\ getFocusState.active
    /\ Cardinality(BlockedDomains(getFocusState, domainContextMap)) > MAX_DNR_RULES
    /\ installedRules # {}

\* the persisted session, the expiry timer and the recently-blocked flag
EngineState ==
    <<focusState, endTimeCheckInterval, liveIntervals, recentlyBlocked,
      blockClearTimer, pendingTimeouts>>

\* C26: a call of start() or end() whose storage read or write fails rejects
\* before it has changed anything: it is rejected out of the read or the write
\* of setFocusState, and neither that step nor its read before a failed write
\* changes the persisted session, the expiry timer or the recently-blocked flag
C26_FailedCallLeavesNoPartialState ==
    /\ [][\A i \in 1..Len(calls) :
            (/\ i <= Len(calls')
             /\ calls[i].phase # "rejected"
             /\ calls'[i].phase = "rejected")
            => (calls[i].phase \in {"read", "write"} /\ UNCHANGED EngineState)]_vars
    /\ [][\A i \in 1..Len(calls) :
            (/\ i <= Len(calls')
             /\ calls[i].phase = "read"
             /\ calls'[i].phase = "write")
            => UNCHANGED EngineState]_vars

\* the storage write of a timed start has just failed: the call is rejected,
\* no session is active and no expiry interval runs
C26_Witness ==
    /\ ret.op = "writeFailed"
    /\ \E i \in 1..Len(calls) :
          /\ calls[i].phase = "rejected"
          /\ calls[i].op = "start"
          /\ calls[i].fields.endTime # Undefined
    /\ ~getFocusState.active
    /\ liveIntervals = 0

\* C27: the entries of the domain map survive a restart of the service
\* worker: after initExtension every domain has the category it had before
C27_LearnedEntriesSurviveRestart ==
    [][ret'.op = "init" =>
          \A d \in Domains : domainContextMap'[d] = domainContextMap[d]]_vars

\* C28: a classification reported with the lowest confidence leaves the
\* domain map as it was
C28_LowConfidenceLeavesMap ==
    [][(ret'.op = "contextUpdate" /\ ret'.conf = 0) =>
          domainContextMap' = domainContextMap]_vars

\* the domain begins with "www."
StartsWithWww(domain) == Len(domain) >= 2 /\ domain[1] = "www"

\* the last two labels of a domain of more than two
LastTwo(domain) == SubSeq(domain, Len(domain) - 1, Len(domain))

C30_MalformedUrlIsHarmless ==
    ~ret.url.parses =>
        /\ ret.op = "extractDomain" => ret.out = <<>>
        /\ ret.op = "extractPathKeywords" => ret.out = <<>>
        /\ ret.op = "analyzeUrl" => (ret.ctx = None /\ ret.out = <<>>)
        /\ ret.op = "navigate" =>
              /\ ~ret.val
              /\ \E t \in Tabs : tabUrl[t] = <<>>

\* during a session that blocks youtube.com, by the listener and by a rule, a
\* tab without a pass has been sent to the text youtube.com/watch, which does
\* not parse, and was not redirected
C30_Witness ==
    /\ ret.op = "navigate"
    /\ ret.url = Schemeless(<<"youtube", "com">>, <<<<"watch">>>>)
    /\ ~ret.pass
    /\ getFocusState.active
    /\ listenerBlocks(getFocusState, domainContextMap[<<"youtube", "com">>])
    /\ \E r \in installedRules : RuleMatches(r, <<"youtube", "com">>)

\* ---------------------------------------------------------------------------
\* C31: every end of a session reached through END_FOCUS_SESSION requests a
\* workspace save when a name is given and triggers the release of the parked
\* links, besides clearing active and endTime.
C31_EndSavesWorkspaceAndReleasesLinks ==
    ret.op = "end" =>
        /\ getFocusState.active = FALSE
        /\ getFocusState.endTime = Undefined
        /\ "releaseParkedLinks" \in ret.effects
        /\ (ret.name # None => "saveCurrentWorkspace" \in ret.effects)

\* ---------------------------------------------------------------------------
\* C32: with threshold 3 and a 30-minute window, three switches into disallowed
\* categories within 10 minutes make isLostFocus true, and the same three
\* switches spread over 40 minutes give isLostFocus false once the earliest is
\* older than the window.
Disallowed(events, allowed) ==
    {i \in 1..Len(events) : events[i].to \notin allowed}

C32_DriftThreshold ==
    (ret.op = "status" /\ Cardinality(Disallowed(ret.out, ret.allowed)) = 3) =>
        LET ds == Disallowed(ret.out, ret.allowed)
            first == CHOOSE i \in ds : \A j \in ds : i <= j
        IN /\ now - ret.out[first].timestamp <= 10 * MsPerMinute => ret.val = TRUE
           /\ now - ret.out[first].timestamp >= 40 * MsPerMinute => ret.val = FALSE

\* three switches into Entertainment within ten minutes were reported as lost
\* focus, with Work allowed only
C32_Witness ==
    /\ ret.op = "status"
    /\ Cardinality(Disallowed(ret.out, ret.allowed)) = 3
    /\ now - ret.out[1].timestamp <= 10 * MsPerMinute
    /\ ret.val = TRUE

\* the same three switches, the earliest forty minutes old, were not
C32_WitnessSpread ==
    /\ ret.op = "status"
    /\ Cardinality(Disallowed(ret.out, ret.allowed)) = 3
    /\ now - ret.out[CHOOSE i \in Disallowed(ret.out, ret.allowed) :
                       \A j \in Disallowed(ret.out, ret.allowed) : i <= j].timestamp
         >= 40 * MsPerMinute
    /\ ret.val = FALSE

\* ---------------------------------------------------------------------------
\* C33: the drift signal is advisory only: the drift alarm sends a warning and
\* never redirects a tab to the intercept page nor changes a block decision.
C33_DriftNeverRedirects ==
    [][ret'.op = "driftAlarm" =>
          /\ tabUrl' = tabUrl
          /\ installedRules' = installedRules
          /\ focusState' = focusState]_vars

\* ---------------------------------------------------------------------------
\* C34: the persisted contextHistory never holds more than 100 entries after
\* any sequence and interleaving of addContextToHistory calls, and when the cap
\* is hit the oldest entry is the one evicted.
Entries(history) == {history[i] : i \in 1..Len(history)}

C34_HistoryCappedOldestEvicted ==
    /\ Len(contextHistory) <= HISTORY_LIMIT
    /\ (ret.op = "addContextToHistory" /\ ret.val) =>
          Entries(ret.out) \ Entries(contextHistory) = {ret.out[1]}

\* the part of C34 that every interleaving keeps: the cap
C34_HistoryCapped == Len(contextHistory) <= HISTORY_LIMIT

C36_PassLastsFiveSeconds ==
    \A timer \in unblockTimers :
        now < timer.deadline => timer.tab \in recentlyUnblockedTabs

\* ---------------------------------------------------------------------------
\* C37: an expired session is completed exactly once: for one expiry, told by
\* its endTime, end() runs at most once and at most one session-complete
\* notification is raised, although the interval and the alarm both check.
EndRuns == {i \in 1..Len(tasks) : tasks[i].arg.ended}

C37_ExpiryCompletedOnce ==
    /\ \A i, j \in EndRuns : tasks[i].arg.endTime = tasks[j].arg.endTime => i = j
    /\ \A i, j \in 1..Len(notifications) :
          notifications[i].endTime = notifications[j].endTime => i = j

\* ---------------------------------------------------------------------------
\* C38: the navigation handler and the context-update handler redirect a tab to
\* the intercept page only if the session is active at the moment the redirect
\* is issued: an end() that completed while the handler was suspended prevents
\* the redirect.
C38_RedirectOnlyWhileActive ==
    (ret.op \in {"listener", "isBlocked"} /\ ret.val) => getFocusState.active

\* ---------------------------------------------------------------------------
\* C39: once end() has completed and no handler is in flight, the
\* recently-blocked flag is false and no cool-down timer is pending.
C39_EndLeavesNoBlockIndicator ==
    (NoTaskInFlight /\ ~getFocusState.active) =>
        /\ recentlyBlocked = FALSE
        /\ blockClearTimer = Undefined
        /\ pendingTimeouts = {}

\* ---------------------------------------------------------------------------
\* C40: domain-map writes are not lost: after overlapping updates the persisted
\* map holds, for every domain written, the context of the latest write to
\* that domain, so entries of different domains are both present.
C40_MapWritesNotLost ==
    \A i \in Writers :
        (\A j \in Writers : tasks[j].arg.domain = tasks[i].arg.domain =>
                               tasks[j].arg.wrote <= tasks[i].arg.wrote)
        => domainContextMap[tasks[i].arg.domain] = tasks[i].arg.context

====
